---- MODULE Spec2Model ----
(***************************************************************************)
(* Model of the text cleaning heuristic of                                 *)
(* 1_data_collection_and_preparation/src/extrair_texto.py.                 *)
(*                                                                         *)
(* A string is a sequence of characters, a character is a one-token        *)
(* string.  Characters outside ASCII are written by name: "A_acute" is the *)
(* capital A with acute accent, "middot" the middle dot, "ndash" the en    *)
(* dash, "backquote" the grave accent on its own, and so on.               *)
(***************************************************************************)
EXTENDS FiniteSets, Integers, Sequences, TLC

VARIABLES
    \* get_pdf_text_clean_from_doc
    doc,                \* the opened document: a sequence of pages
    REMOVE_FROM_ANEXO,  \* module-level configuration flag (line 44)
    pc,                 \* position in get_pdf_text_clean_from_doc
    heights,            \* list of page heights            (line 259)
    pages_lines,        \* list of per-page (bbox, line)   (line 259)
    top_rep,            \* detected headers                (line 267)
    bot_rep,            \* detected footers                (line 267)
    annex_start,        \* Optional[int], NoPage for None  (line 270)
    i,                  \* page index of the filter loop   (line 277)
    cleaned_pages,      \* list of page texts              (line 274)
    result,             \* the value returned              (line 304)
    \* history of the run, read by the properties only
    decisions,          \* per filtered page, per line: TRUE when the line was dropped
    detect_calls,       \* number of calls of detect_headers_footers
    annex_calls,        \* number of calls of find_annex_start_page
    annex_assigns,      \* number of assignments to annex_start
    config,             \* the other module-level settings (lines 41 to 78)
    \* normalize_line applied to a string, and to its own result
    ns, nout, nout2, npc,
    \* the line classifiers applied to a normalized line
    cl_raw,             \* the text of a block line as PyMuPDF gives it
    cl_line,            \* normalize_line(cl_raw)
    cl_page,            \* is_page_number(cl_line)
    cl_remove,          \* should_remove_global(cl_line)
    cl_annex,           \* looks_like_annex_title(cl_line)
    cl_pc,
    \* get_pdf_text_clean_from_doc called by several threads at once
    workers,            \* per thread, the locals of its call
    \* the batch run of the script (lines 322 to 363)
    batch,
    \* process_propositions_in_parallel (use_cases.py)
    pool

vars == << doc, REMOVE_FROM_ANEXO, pc, heights, pages_lines, top_rep, bot_rep,
           annex_start, i, cleaned_pages, result, decisions, detect_calls,
           annex_calls, annex_assigns, config, ns, nout, nout2, npc,
           cl_raw, cl_line, cl_page, cl_remove, cl_annex, cl_pc, workers,
           batch, pool >>

pipeVars == << doc, REMOVE_FROM_ANEXO, pc, heights, pages_lines, top_rep, bot_rep,
               annex_start, i, cleaned_pages, result, decisions, detect_calls,
               annex_calls, annex_assigns >>

normVars == << ns, nout, nout2, npc >>

classVars == << cl_raw, cl_line, cl_page, cl_remove, cl_annex, cl_pc >>

\* the variables that get_pdf_text_clean_from_doc does not touch
otherVars == << normVars, classVars, workers, batch, pool >>

----------------------------------------------------------------------------
(* Bounds *)

\* longest document, in pages
MaxPages == 5

\* most pieces in a line given to the classifiers on their own
MaxPieces == 4

\* longest document cleaned by one of several threads, in pages
MaxThreadPages == 2

\* longest document with a page of stamps, in pages
MaxStampedPages == 4

\* longest document with pages without height, in pages
MaxFlatPages == 3

\* longest string given to normalize_line on its own
\* the pages of a document that has pages without lines
MaxSparsePages == 5

\* the pages of a document that has pages of which no line is kept
MaxSegmentPages == 3

\* the propositions of the input file of the batch run
MaxPropositions == 3

\* the propositions given to process_propositions_in_parallel
MaxTasks == 3

\* the worker threads of its executor (the parameter max_workers)
MaxWorkers == 2

MaxLen == 6

----------------------------------------------------------------------------
(* Characters *)

\* the character class of the first re.sub of normalize_line (line 91)
NoiseChars == {"_", "'", ".", "middot", "bullet", "blackcircle", "whitebullet",
               "blacksmallsquare", "whitesmallsquare", "dotoperator",
               "bulletoperator", "ellipsis"}

\* the characters \s matches and str.strip() strips
WhitespaceChars == {" ", "\t", "\n", "\r", "\f"}

\* the line boundaries of str.splitlines()
LineBreakChars == {"\n", "\r", "\f"}

Digits == {"0", "1", "2", "3", "4", "5", "6", "7", "8", "9"}

SetMin(S) == CHOOSE m \in S : \A x \in S : m <= x

SetMax(S) == CHOOSE m \in S : \A x \in S : m >= x

\* the length of the longest run of characters of class C that starts at s[k]
RECURSIVE RunLen(_, _, _)
RunLen(s, k, C) ==
    IF k > Len(s) \/ s[k] \notin C THEN 0 ELSE 1 + RunLen(s, k + 1, C)

\* str.strip()
Strip(s) ==
    LET keep == {k \in 1..Len(s) : s[k] \notin WhitespaceChars}
    IN  IF keep = {} THEN <<>> ELSE SubSeq(s, SetMin(keep), SetMax(keep))

\* re.sub(C{least,}, ' ', s) from position k: leftmost, greedy, non-overlapping
RECURSIVE SubRuns(_, _, _, _)
SubRuns(s, k, C, least) ==
    IF k > Len(s) THEN <<>>
    ELSE LET r == RunLen(s, k, C)
         IN  IF r >= least
             THEN <<" ">> \o SubRuns(s, k + r, C, least)
             ELSE <<s[k]>> \o SubRuns(s, k + 1, C, least)

\* normalize_line with the two substitutions in the other order
normalize_line_swapped(s) ==
    Strip(SubRuns(SubRuns(s, 1, WhitespaceChars, 1), 1, NoiseChars, 3))

normalize_line(s) ==
    Strip(SubRuns(SubRuns(s, 1, NoiseChars, 3), 1, WhitespaceChars, 1))

----------------------------------------------------------------------------
(* normalize_line on its own *)

\* the characters of the strings given to normalize_line on its own
NormAlphabet == {".", "_", " ", "\t", "a"}

StringsUpTo(n) == UNION {[1..m -> NormAlphabet] : m \in 0..n}

NormInit ==
    /\ ns \in StringsUpTo(MaxLen)
    /\ nout = <<>>
    /\ nout2 = <<>>
    /\ npc = "start"

NormalizeOnce ==
    /\ npc = "start"
    /\ nout' = normalize_line(ns)
    /\ npc' = "once"
    /\ UNCHANGED << ns, nout2 >>

NormalizeTwice ==
    /\ npc = "once"
    /\ nout2' = normalize_line(nout)
    /\ npc' = "twice"
    /\ UNCHANGED << ns, nout >>

----------------------------------------------------------------------------
(* Letters and case *)

UpperLetters ==
    << "A", "B", "C", "D", "E", "F", "G", "H", "I", "J", "K", "L", "M",
       "N", "O", "P", "Q", "R", "S", "T", "U", "V", "W", "X", "Y", "Z",
       "A_acute", "A_circ", "A_tilde", "C_cedil", "E_acute", "E_circ",
       "I_acute", "O_acute", "O_tilde", "U_acute" >>

LowerLetters ==
    << "a", "b", "c", "d", "e", "f", "g", "h", "i", "j", "k", "l", "m",
       "n", "o", "p", "q", "r", "s", "t", "u", "v", "w", "x", "y", "z",
       "a_acute", "a_circ", "a_tilde", "c_cedil", "e_acute", "e_circ",
       "i_acute", "o_acute", "o_tilde", "u_acute" >>

Range(f) == {f[x] : x \in DOMAIN f}

UpperSet == Range(UpperLetters)

LowerSet == Range(LowerLetters)

\* the masculine ordinal indicator is a letter without case
CaselessLetters == {"ordm"}

OtherChars == {"*", "/", "-", "ndash", "mdash", ":", "@", "backquote", ",", "(", ")"}

\* every character of the model
AllChars == UpperSet \cup LowerSet \cup CaselessLetters \cup Digits
            \cup NoiseChars \cup WhitespaceChars \cup OtherChars

\* the lower case letter of each upper case letter, and the converse
LowerOf == [c \in UpperSet |->
               LowerLetters[CHOOSE k \in DOMAIN UpperLetters : UpperLetters[k] = c]]

UpperOf == [c \in LowerSet |->
               UpperLetters[CHOOSE k \in DOMAIN LowerLetters : LowerLetters[k] = c]]

\* str.lower() and str.casefold() of one character
LowerChar(c) == IF c \in UpperSet THEN LowerOf[c] ELSE c

\* str.upper() of one character
UpperChar(c) == IF c \in LowerSet THEN UpperOf[c] ELSE c

casefold(s) == [k \in 1..Len(s) |-> LowerChar(s[k])]

upper(s) == [k \in 1..Len(s) |-> UpperChar(s[k])]

isalpha(c) == c \in UpperSet \cup LowerSet \cup CaselessLetters

isupper(c) == c \in UpperSet

\* sub in s
Contains(s, sub) ==
    \E k \in 1..(Len(s) - Len(sub) + 1) : \A j \in 1..Len(sub) : s[k + j - 1] = sub[j]

----------------------------------------------------------------------------
(* Regular expressions without alternation: a pattern is a sequence of     *)
(* items, an item a character class repeated between lo and hi times.      *)

\* cls{lo,hi}
Item(cls, lo, hi) == [cls |-> cls, lo |-> lo, hi |-> hi]

\* cls{lo,}: no upper limit, written as hi = -1
AtLeast(cls, lo) == [cls |-> cls, lo |-> lo, hi |-> -1]

One(c) == Item({c}, 1, 1)

\* one character under the flag (?i)
OneI(c) == Item({c, LowerChar(c), UpperChar(c)}, 1, 1)

\* a literal under the flag (?i)
LiteralI(s) == [k \in 1..Len(s) |-> OneI(s[k])]

Literal(s) == [k \in 1..Len(s) |-> One(s[k])]

\* the positions where a match of item it can end when it starts at one of K
StepItem(s, K, it) ==
    UNION { LET r == RunLen(s, k, it.cls)
                top == IF it.hi < 0 \/ r < it.hi THEN r ELSE it.hi
            IN  {k + m : m \in it.lo..top} : k \in K }

\* the positions where a match of pattern pat can end when it starts at one of K
RECURSIVE MatchEnds(_, _, _)
MatchEnds(s, K, pat) ==
    IF pat = <<>> \/ K = {} THEN K
    ELSE MatchEnds(s, StepItem(s, K, Head(pat)), Tail(pat))

\* re.fullmatch(pat, s)
FullMatch(s, pat) == (Len(s) + 1) \in MatchEnds(s, {1}, pat)

\* the positions where $ matches: the end, and before a final line feed
AtDollar(s, e) == e = Len(s) + 1 \/ (e = Len(s) /\ s[e] = "\n")

----------------------------------------------------------------------------
(* Classifiers of one line *)

\* one or more whitespace characters
Spaces1 == AtLeast(WhitespaceChars, 1)

\* zero or more whitespace characters
Spaces0 == AtLeast(WhitespaceChars, 0)

\* one to four digits
PageDigitsPattern == << Item(Digits, 1, 4) >>

\* "pagina", with or without the acute accent and in any case, whitespace,
\* one to four digits
PaginaPattern ==
    << OneI("p"), Item({"a", "A", "a_acute", "A_acute"}, 1, 1) >>
    \o LiteralI(<<"g", "i", "n", "a">>) \o << Spaces1, Item(Digits, 1, 4) >>

\* the same followed by whitespace, "de", whitespace, one to four digits
PaginaDePattern ==
    PaginaPattern \o << Spaces1 >> \o LiteralI(<<"d", "e">>)
    \o << Spaces1, Item(Digits, 1, 4) >>

\* one to four digits, a slash between optional whitespace, one to four digits
PageSlashPattern ==
    << Item(Digits, 1, 4), Spaces0, One("/"), Spaces0, Item(Digits, 1, 4) >>

\* is_page_number without the test of the form with a slash
is_page_number_no_slash(line) ==
    LET t == Strip(line)
    IN  IF FullMatch(t, PageDigitsPattern) THEN TRUE
        ELSE IF FullMatch(t, PaginaPattern) \/ FullMatch(t, PaginaDePattern) THEN TRUE
        ELSE FALSE

is_page_number(line) ==
    LET t == Strip(line)
    IN  IF FullMatch(t, PageDigitsPattern) THEN TRUE
        ELSE IF FullMatch(t, PaginaPattern) \/ FullMatch(t, PaginaDePattern) THEN TRUE
        ELSE IF FullMatch(t, PageSlashPattern) THEN TRUE
        ELSE FALSE

\* the list the module gives BANNED_SUBSTRS when it is loaded (lines 64 to 78)
BannedSubstrsLoaded ==
    << <<"c", "a_circ", "m", "a", "r", "a", " ", "d", "o", "s", " ", "d", "e", "p", "u", "t", "a", "d", "o", "s">>,
       <<"g", "a", "b", "i", "n", "e", "t", "e", " ", "d", "o", " ", "d", "e", "p", "u", "t", "a", "d", "o">>,
       <<"g", "a", "b", "i", "n", "e", "t", "e", " ", "d", "o", " ", "d", "e", "p", "u", "t", "a", "d", "o", " ", "f", "e", "d", "e", "r", "a", "l">>,
       <<"a", "s", "s", "i", "n", "a", "d", "o", " ", "e", "l", "e", "t", "r", "o", "n", "i", "c", "a", "m", "e", "n", "t", "e">>,
       <<"p", "a", "r", "a", " ", "v", "e", "r", "i", "f", "i", "c", "a", "r", " ", "a", " ", "a", "s", "s", "i", "n", "a", "t", "u", "r", "a">>,
       <<"@", "c", "a", "m", "a", "r", "a", ".", "l", "e", "g", ".", "b", "r">>,
       <<"p", "r", "a", "c_cedil", "a", " ", "d", "o", "s", " ", "t", "r", "e_circ", "s", " ", "p", "o", "d", "e", "r", "e", "s">>,
       <<"c", "e", "p", " ", "7", "0", "1", "6", "0">>,
       <<"m", "e", "s", "a">>,
       <<"d", "e", "p", "u", "t", "a", "d", "o", " ", "f", "e", "d", "e", "r", "a", "l">>,
       <<"p", "r", "o", "j", "e", "t", "o", " ", "d", "e", " ", "l", "e", "i", " ", "n">>,
       <<"p", "r", "o", "j", "e", "t", "o", " ", "d", "e", " ", "l", "e", "i", " ", "n", "ordm">>,
       <<"g", "a", "b", "i", "n", "e", "t", "e">> >>

\* the module-level settings as the module sets them when it is loaded;
\* fractions are in hundredths
SettingsLoaded ==
    [ TOP_FRAC               |-> 15,
      BOTTOM_FRAC            |-> 15,
      REPEAT_THRESHOLD       |-> 40,
      TOP_FRAC_ANNEX         |-> 30,
      STRICT_UPPERCASE_ANNEX |-> TRUE,
      BANNED_SUBSTRS         |-> BannedSubstrsLoaded ]

\* the module-level names are read where they are used
BANNED_SUBSTRS == config.BANNED_SUBSTRS

\* any(b in l for b in BANNED_SUBSTRS)
HasBannedSubstr(l) == \E b \in DOMAIN BANNED_SUBSTRS : Contains(l, BANNED_SUBSTRS[b])

\* ProtocolBodyPattern with three or more digits
ProtocolBodyPatternOfThree ==
    << Spaces0, One("c"), One("d"), AtLeast(Digits, 3), Spaces0 >>

\* optional whitespace, "cd", six or more digits, optional whitespace
ProtocolBodyPattern ==
    << Spaces0, One("c"), One("d"), AtLeast(Digits, 6), Spaces0 >>

\* the re.search of line 127: the body above after an asterisk or at the start
\* of l, and before an asterisk or at the end of l
HasProtocolCode(l) ==
    LET starts == {1} \cup {k + 1 : k \in {q \in 1..Len(l) : l[q] = "*"}}
        ends   == MatchEnds(l, starts, ProtocolBodyPattern)
    IN  \E e \in ends : (e <= Len(l) /\ l[e] = "*") \/ AtDollar(l, e)

\* the pattern of line 131, under the flag (?i): "pl", optional whitespace, an
\* optional "n", a backquote, a dot, "IBL", an optional "E", any number of "s",
\* one to six digits, a slash or hyphen, two to four digits
BillIdPattern ==
    LiteralI(<<"p", "l">>)
    \o << Spaces0, Item({"n", "N"}, 0, 1), One("backquote"), One(".") >>
    \o LiteralI(<<"I", "B", "L">>)
    \o << Item({"e", "E"}, 0, 1), AtLeast({"s", "S"}, 0),
          Item(Digits, 1, 6), Item({"/", "-"}, 1, 1), Item(Digits, 2, 4) >>

\* "pl", optional whitespace, one to six digits, a slash or hyphen, two to four
\* digits: a pattern that a short bill identifier does match
BillIdPatternPlain ==
    LiteralI(<<"p", "l">>)
    \o << Spaces0, Item(Digits, 1, 6), Item({"/", "-"}, 1, 1), Item(Digits, 2, 4) >>

\* should_remove_global with that pattern in the place of the one of line 131
should_remove_global_plain(line) ==
    IF line = <<>> THEN FALSE
    ELSE LET l == casefold(line)
         IN  IF HasBannedSubstr(l) THEN TRUE
             ELSE IF HasProtocolCode(l) THEN TRUE
             ELSE IF FullMatch(Strip(line), BillIdPatternPlain) THEN TRUE
             ELSE FALSE

\* should_remove_global looking for the banned substrings in the line as it is
should_remove_global_cased(line) ==
    IF line = <<>> THEN FALSE
    ELSE LET l == casefold(line)
         IN  IF HasBannedSubstr(line) THEN TRUE
             ELSE IF HasProtocolCode(l) THEN TRUE
             ELSE IF FullMatch(Strip(line), BillIdPattern) THEN TRUE
             ELSE FALSE

should_remove_global(line) ==
    IF line = <<>> THEN FALSE
    ELSE LET l == casefold(line)
         IN  IF HasBannedSubstr(l) THEN TRUE
             ELSE IF HasProtocolCode(l) THEN TRUE
             ELSE IF FullMatch(Strip(line), BillIdPattern) THEN TRUE
             ELSE FALSE

STRICT_UPPERCASE_ANNEX == config.STRICT_UPPERCASE_ANNEX

\* one or more roman numeral letters or digits
AnnexNumeral == AtLeast({"I", "V", "X", "L", "C", "D", "M"} \cup Digits, 1)

\* a hyphen, en dash, em dash or colon
AnnexSeparator == Item({"-", "ndash", "mdash", ":"}, 1, 1)

\* any run of characters other than the line feed
AnyRun == AtLeast(AllChars \ {"\n"}, 0)

AnnexWord == Literal(<<"A", "N", "E", "X", "O">>)

\* the re.match of line 203: "ANEXO", an optional group of whitespace and a
\* numeral, an optional group of optional whitespace, a separator and any run,
\* then the end of s; each group present or absent
AnnexShape(s) ==
    \E pat \in { AnnexWord,
                 AnnexWord \o << Spaces1, AnnexNumeral >>,
                 AnnexWord \o << Spaces0, AnnexSeparator, AnyRun >>,
                 AnnexWord \o << Spaces1, AnnexNumeral, Spaces0, AnnexSeparator, AnyRun >> } :
        \E e \in MatchEnds(s, {1}, pat) : AtDollar(s, e)

\* len(s.split()): the number of maximal runs of characters that are not whitespace
WordCount(s) ==
    Cardinality({k \in 1..Len(s) : /\ s[k] \notin WhitespaceChars
                                   /\ (k = 1 \/ s[k - 1] \in WhitespaceChars)})

looks_like_annex_title(line) ==
    LET s == Strip(line)
        letters == {k \in 1..Len(s) : isalpha(s[k])}
        uppers  == {k \in letters : isupper(s[k])}
    IN  IF ~AnnexShape(s) THEN FALSE
        ELSE IF (Len(s) > 0 /\ s[Len(s)] = ".") \/ WordCount(s) > 10 THEN FALSE
        ELSE IF letters # {} /\ 100 * Cardinality(uppers) < 90 * Cardinality(letters) THEN FALSE
        ELSE IF STRICT_UPPERCASE_ANNEX /\ s # upper(s) THEN FALSE
        ELSE TRUE

----------------------------------------------------------------------------
(* Optional values *)

None == [some |-> FALSE]

Some(x) == [some |-> TRUE, v |-> x]

----------------------------------------------------------------------------
(* Spatial analysis.  Fractions are in hundredths: y0 <= h * 0.15 is        *)
(* y0 * 100 <= h * 15.                                                      *)

TOP_FRAC == config.TOP_FRAC

BOTTOM_FRAC == config.BOTTOM_FRAC

REPEAT_THRESHOLD == config.REPEAT_THRESHOLD

TOP_FRAC_ANNEX == config.TOP_FRAC_ANNEX

\* y0 <= top_y, with top_y = h * TOP_FRAC
InTopZone(y0, h) == y0 * 100 <= h * TOP_FRAC

\* y0 >= bot_y, with bot_y = h * (1 - BOTTOM_FRAC)
InBottomZone(y0, h) == y0 * 100 >= h * (100 - BOTTOM_FRAC)

\* str.splitlines()
RECURSIVE splitlines(_)
splitlines(s) ==
    IF s = <<>> THEN <<>>
    ELSE LET breaks == {k \in 1..Len(s) : s[k] \in LineBreakChars}
         IN  IF breaks = {} THEN << s >>
             ELSE LET k == SetMin(breaks)
                      next == IF s[k] = "\r" /\ k < Len(s) /\ s[k + 1] = "\n"
                              THEN k + 2 ELSE k + 1
                  IN  << SubSeq(s, 1, k - 1) >> \o splitlines(SubSeq(s, next, Len(s)))

\* the lines of one block: normalized, the empty ones left out, each with the
\* block's box (of which only y0 is ever read)
RECURSIVE BlockLines(_, _)
BlockLines(y0, lines) ==
    IF lines = <<>> THEN <<>>
    ELSE LET ln == normalize_line(Head(lines))
         IN  (IF ln # <<>> THEN << [y0 |-> y0, line |-> ln] >> ELSE <<>>)
             \o BlockLines(y0, Tail(lines))

RECURSIVE extract_blocks(_)
extract_blocks(blocks) ==
    IF blocks = <<>> THEN <<>>
    ELSE BlockLines(Head(blocks).y0, splitlines(Head(blocks).text))
         \o extract_blocks(Tail(blocks))

\* TopCandidates with the page numbers
TopCandidatesWithPageNumbers(lines, h) ==
    {lines[k].line : k \in {q \in DOMAIN lines : InTopZone(lines[q].y0, h)}}

\* the set st of one page: the texts in the top zone that are no page number
TopCandidates(lines, h) ==
    {lines[k].line : k \in {q \in DOMAIN lines :
        InTopZone(lines[q].y0, h) /\ ~is_page_number(lines[q].line)}}

\* the set sb of one page: the texts in the bottom zone
BottomCandidates(lines, h) ==
    {lines[k].line : k \in {q \in DOMAIN lines : InBottomZone(lines[q].y0, h)}}

\* CounterUpdate that counts an element once more for each time it was seen
\* before on other pages and once for this page
CounterUpdateDoubling(c, S) ==
    [l \in (DOMAIN c) \cup S |->
        (IF l \in DOMAIN c THEN c[l] ELSE 0)
        + (IF l \in S THEN (IF l \in DOMAIN c THEN c[l] ELSE 0) + 1 ELSE 0)]

\* Counter.update(S) with S a set: each element counts once more
CounterUpdate(c, S) ==
    [l \in (DOMAIN c) \cup S |->
        (IF l \in DOMAIN c THEN c[l] ELSE 0) + (IF l \in S THEN 1 ELSE 0)]

\* top_c after the loop over the pages k..n
RECURSIVE TopCounter(_, _, _, _)
TopCounter(pl, hs, k, c) ==
    IF k > Len(pl) THEN c
    ELSE TopCounter(pl, hs, k + 1, CounterUpdate(c, TopCandidates(pl[k], hs[k])))

RECURSIVE BottomCounter(_, _, _, _)
BottomCounter(pl, hs, k, c) ==
    IF k > Len(pl) THEN c
    ELSE BottomCounter(pl, hs, k + 1, CounterUpdate(c, BottomCandidates(pl[k], hs[k])))

\* Repeated with the threshold of a document of two pages
RepeatedOfTwo(c, n) == {l \in DOMAIN c : c[l] * 100 >= REPEAT_THRESHOLD * 2}

\* Repeated with a strict comparison
RepeatedStrict(c, n) == {l \in DOMAIN c : c[l] * 100 > REPEAT_THRESHOLD * n}

\* c >= REPEAT_THRESHOLD * n
Repeated(c, n) == {l \in DOMAIN c : c[l] * 100 >= REPEAT_THRESHOLD * n}

\* detect_headers_footers with n the number of the pages that have lines
detect_headers_footers_of_pages_with_lines(pl, hs) ==
    LET n == Cardinality({p \in DOMAIN pl : pl[p] # <<>>})
        top_c == TopCounter(pl, hs, 1, <<>>)
        bot_c == BottomCounter(pl, hs, 1, <<>>)
    IN  [top_rep |-> Repeated(top_c, n), bot_rep |-> Repeated(bot_c, n)]

detect_headers_footers(pl, hs) ==
    LET n == Len(pl)
        top_c == TopCounter(pl, hs, 1, <<>>)
        bot_c == BottomCounter(pl, hs, 1, <<>>)
    IN  [top_rep |-> Repeated(top_c, n), bot_rep |-> Repeated(bot_c, n)]

\* IsAnnexCandidatePage without the test of the annex zone
IsAnnexCandidatePageAnywhere(lines, h) ==
    \E k \in DOMAIN lines : looks_like_annex_title(lines[k].line)

\* the inner loop of find_annex_start_page on one page
IsAnnexCandidatePage(lines, h) ==
    \E k \in DOMAIN lines :
        /\ lines[k].y0 * 100 <= h * TOP_FRAC_ANNEX
        /\ looks_like_annex_title(lines[k].line)

\* the list candidates: zero-based page indexes, in page order
RECURSIVE AnnexCandidates(_, _, _)
AnnexCandidates(pl, hs, k) ==
    IF k > Len(pl) THEN <<>>
    ELSE (IF IsAnnexCandidatePage(pl[k], hs[k]) THEN << k - 1 >> ELSE <<>>)
         \o AnnexCandidates(pl, hs, k + 1)

\* find_annex_start_page with the exact half of the number of pages
find_annex_start_page_exact_half(pl, hs) ==
    LET candidates == AnnexCandidates(pl, hs, 1)
        n_pages == Len(pl)
    IN  IF candidates = <<>> THEN None
        ELSE LET start == candidates[Len(candidates)]
             IN  IF 2 * start < n_pages THEN None ELSE Some(start)

find_annex_start_page(pl, hs) ==
    LET candidates == AnnexCandidates(pl, hs, 1)
        n_pages == Len(pl)
    IN  IF candidates = <<>> THEN None
        ELSE LET start == candidates[Len(candidates)]
             IN  IF start < n_pages \div 2 THEN None ELSE Some(start)

----------------------------------------------------------------------------
(* get_pdf_text_clean_from_doc *)

\* DropLine with the page number rule applied anywhere on the page
DropLineAnyPageNumber(l, h, tops, bots) ==
    IF should_remove_global(l.line) THEN TRUE
    ELSE IF l.line \in tops /\ InTopZone(l.y0, h) THEN TRUE
    ELSE IF l.line \in bots /\ InBottomZone(l.y0, h) THEN TRUE
    ELSE IF is_page_number(l.line) THEN TRUE
    ELSE FALSE

\* the exclusion rules of lines 292 to 295 on one line: TRUE when it is dropped
DropLine(l, h, tops, bots) ==
    IF should_remove_global(l.line) THEN TRUE
    ELSE IF l.line \in tops /\ InTopZone(l.y0, h) THEN TRUE
    ELSE IF l.line \in bots /\ InBottomZone(l.y0, h) THEN TRUE
    ELSE IF is_page_number(l.line) /\ (InTopZone(l.y0, h) \/ InBottomZone(l.y0, h)) THEN TRUE
    ELSE FALSE

\* KeepLines with each line kept put before the lines kept so far
RECURSIVE KeepLinesNewestFirst(_, _, _, _)
KeepLinesNewestFirst(lines, h, tops, bots) ==
    IF lines = <<>> THEN <<>>
    ELSE KeepLinesNewestFirst(Tail(lines), h, tops, bots)
         \o (IF DropLine(Head(lines), h, tops, bots) THEN <<>> ELSE << Head(lines).line >>)

\* the list keep of one page
RECURSIVE KeepLines(_, _, _, _)
KeepLines(lines, h, tops, bots) ==
    IF lines = <<>> THEN <<>>
    ELSE (IF DropLine(Head(lines), h, tops, bots) THEN <<>> ELSE << Head(lines).line >>)
         \o KeepLines(Tail(lines), h, tops, bots)

\* sep.join(strs)
RECURSIVE Join(_, _)
Join(strs, sep) ==
    IF strs = <<>> THEN <<>>
    ELSE IF Len(strs) = 1 THEN Head(strs)
    ELSE Head(strs) \o sep \o Join(Tail(strs), sep)

\* OrNone without the test of the empty string
OrNoneKeepsEmpty(text) == Some(text)

\* text or None
OrNone(text) == IF text = <<>> THEN None ELSE Some(text)

\* the texts of the first m pages that keep a line, filtered with the sets hf
RECURSIVE PageTexts(_, _, _, _)
PageTexts(pl, hs, hf, m) ==
    IF m = 0 THEN <<>>
    ELSE LET text == Strip(Join(KeepLines(pl[m], hs[m], hf.top_rep, hf.bot_rep), <<" ">>))
         IN  PageTexts(pl, hs, hf, m - 1) \o (IF text # <<>> THEN << text >> ELSE <<>>)

\* what the call returns for document d when nothing else runs
CleanedAlone(d) ==
    LET pl == [p \in DOMAIN d |-> extract_blocks(d[p].blocks)]
        hs == [p \in DOMAIN d |-> d[p].height]
        hf == detect_headers_footers(pl, hs)
        a  == IF REMOVE_FROM_ANEXO THEN find_annex_start_page(pl, hs) ELSE None
        m  == IF a.some THEN a.v ELSE Len(d)
    IN  OrNone(Strip(Join(PageTexts(pl, hs, hf, m), <<"\n">>)))

\* the call as a whole
get_pdf_text_clean_from_doc(d) == CleanedAlone(d)

----------------------------------------------------------------------------
(* The documents of the model: every sequence of at most MaxPages pages,   *)
(* each page one of PageCatalog.  A page is its height and its blocks, a   *)
(* block the top y0 of its box and its raw text.                           *)

Block(y0, text) == [y0 |-> y0, text |-> text]

\* Every page of the catalog is 100 high, so that its top zone ends at 15, its
\* annex zone at 30, and its bottom zone starts at 85.  A block is at 10 (top
\* zone), 20 (annex zone only), 50 (body) or 90 (bottom zone).

TextHeader == <<"D", "I", "A", "R", "I", "O">>
TextBody == <<"A", "r", "t", ".", ".", ".", ".", ".", "1", "\n", "7">>
TextPageNo == <<"3">>
TextAnnex == <<"A", "N", "E", "X", "O", " ", "I">>
TextFooter == <<"S", "a", "l", "a">>
TextStamp == <<"M", "e", "s", "a">>
TextStampUpper == <<"M", "E", "S", "A">>
TextStampLower == <<"m", "e", "s", "a">>
TextFooterTwice == <<"S", "a", "l", "a", "\n", ".", ".", ".", ".", "\n", "S", "a", "l", "a">>

\* a running header, body text with dot leaders and a number, a page number
PageRegular ==
    [height |-> 100,
     blocks |-> << Block(10, TextHeader), Block(50, TextBody),
                   Block(90, TextPageNo) >>]

\* an annex title near the top, the header text in the body, a footer
PageAnnex ==
    [height |-> 100,
     blocks |-> << Block(20, TextAnnex), Block(50, TextHeader),
                   Block(90, TextFooter) >>]

\* a page without text blocks
PageEmpty == [height |-> 100, blocks |-> <<>>]

\* a page number and a stamp at the top, an annex title and the footer text
\* in the body, the footer twice in one block at the bottom
PageMixed ==
    [height |-> 100,
     blocks |-> << Block(10, TextPageNo), Block(10, TextStamp),
                   Block(50, TextAnnex), Block(50, TextFooter),
                   Block(90, TextFooterTwice) >>]

PageCatalog == {PageRegular, PageAnnex, PageEmpty, PageMixed}

Documents == UNION {[1..n -> PageCatalog] : n \in 0..MaxPages}

----------------------------------------------------------------------------
(* The steps of get_pdf_text_clean_from_doc *)

NormIdle ==
    /\ ns = <<>>
    /\ nout = <<>>
    /\ nout2 = <<>>
    /\ npc = "off"

ClassIdle ==
    /\ cl_raw = <<>>
    /\ cl_line = <<>>
    /\ cl_page = FALSE
    /\ cl_remove = FALSE
    /\ cl_annex = FALSE
    /\ cl_pc = "off"

ParIdle == workers = <<>>

\* the script is not run
BatchIdle == batch = <<>>

\* process_propositions_in_parallel is not called
PoolIdle == pool = <<>>

Init ==
    /\ doc \in Documents
    /\ REMOVE_FROM_ANEXO \in BOOLEAN
    /\ pc = "extract"
    /\ heights = <<>>
    /\ pages_lines = <<>>
    /\ top_rep = {}
    /\ bot_rep = {}
    /\ annex_start = None
    /\ i = 0
    /\ cleaned_pages = <<>>
    /\ result = None
    /\ decisions = <<>>
    /\ detect_calls = 0
    /\ annex_calls = 0
    /\ annex_assigns = 0
    /\ config = SettingsLoaded
    /\ NormIdle
    /\ ClassIdle
    /\ ParIdle
    /\ BatchIdle
    /\ PoolIdle

\* one turn of the loop of lines 262 to 264
ExtractPage ==
    /\ pc = "extract"
    /\ Len(pages_lines) < Len(doc)
    /\ LET p == doc[Len(pages_lines) + 1]
       IN  /\ heights' = Append(heights, p.height)
           /\ pages_lines' = Append(pages_lines, extract_blocks(p.blocks))
    /\ UNCHANGED << doc, REMOVE_FROM_ANEXO, pc, top_rep, bot_rep, annex_start, i,
                    cleaned_pages, result, decisions, detect_calls, annex_calls,
                    annex_assigns, config, otherVars >>

\* DetectHeadersFooters run before the loop over the pages of doc has ended
DetectHeadersFootersEarly ==
    /\ pc = "extract"
    /\ LET d == detect_headers_footers(pages_lines, heights)
       IN  /\ top_rep' = d.top_rep
           /\ bot_rep' = d.bot_rep
    /\ detect_calls' = detect_calls + 1
    /\ pc' = "annex"
    /\ UNCHANGED << doc, REMOVE_FROM_ANEXO, heights, pages_lines, annex_start, i,
                    cleaned_pages, result, decisions, annex_calls, annex_assigns,
                    config, otherVars >>

\* line 267, once the loop over the pages of doc has ended
DetectHeadersFooters ==
    /\ pc = "extract"
    /\ Len(pages_lines) = Len(doc)
    /\ LET d == detect_headers_footers(pages_lines, heights)
       IN  /\ top_rep' = d.top_rep
           /\ bot_rep' = d.bot_rep
    /\ detect_calls' = detect_calls + 1
    /\ pc' = "annex"
    /\ UNCHANGED << doc, REMOVE_FROM_ANEXO, heights, pages_lines, annex_start, i,
                    cleaned_pages, result, decisions, annex_calls, annex_assigns,
                    config, otherVars >>

\* FindAnnex without the test of REMOVE_FROM_ANEXO
FindAnnexAlways ==
    /\ pc = "annex"
    /\ annex_start' = find_annex_start_page(pages_lines, heights)
    /\ annex_calls' = annex_calls + 1
    /\ annex_assigns' = annex_assigns + 1
    /\ i' = 0
    /\ pc' = "filter"
    /\ UNCHANGED << doc, REMOVE_FROM_ANEXO, heights, pages_lines, top_rep, bot_rep,
                    cleaned_pages, result, decisions, detect_calls, config, otherVars >>

\* FindAnnex that switches the truncation off once it has looked for the annex
FindAnnexClearsFlag ==
    /\ pc = "annex"
    /\ IF REMOVE_FROM_ANEXO
       THEN /\ annex_start' = find_annex_start_page(pages_lines, heights)
            /\ annex_calls' = annex_calls + 1
       ELSE /\ annex_start' = None
            /\ UNCHANGED annex_calls
    /\ REMOVE_FROM_ANEXO' = FALSE
    /\ annex_assigns' = annex_assigns + 1
    /\ i' = 0
    /\ pc' = "filter"
    /\ UNCHANGED << doc, heights, pages_lines, top_rep, bot_rep,
                    cleaned_pages, result, decisions, detect_calls, config, otherVars >>

\* line 270
FindAnnex ==
    /\ pc = "annex"
    /\ IF REMOVE_FROM_ANEXO
       THEN /\ annex_start' = find_annex_start_page(pages_lines, heights)
            /\ annex_calls' = annex_calls + 1
       ELSE /\ annex_start' = None
            /\ UNCHANGED annex_calls
    /\ annex_assigns' = annex_assigns + 1
    /\ i' = 0
    /\ pc' = "filter"
    /\ UNCHANGED << doc, REMOVE_FROM_ANEXO, heights, pages_lines, top_rep, bot_rep,
                    cleaned_pages, result, decisions, detect_calls, config, otherVars >>

\* AtAnnex one page late
AtAnnexLate == annex_start.some /\ i > annex_start.v

\* the test of line 280
AtAnnex == annex_start.some /\ i >= annex_start.v

\* lines 280 and 281: the loop over the pages is left at the annex
AnnexBreak ==
    /\ pc = "filter"
    /\ i < Len(pages_lines)
    /\ AtAnnex
    /\ pc' = "join"
    /\ UNCHANGED << doc, REMOVE_FROM_ANEXO, heights, pages_lines, top_rep, bot_rep,
                    annex_start, i, cleaned_pages, result, decisions, detect_calls,
                    annex_calls, annex_assigns, config, otherVars >>

\* FilterPage that appends the text of the page when it is empty too
FilterPageKeepsEmptyText ==
    /\ pc = "filter"
    /\ i < Len(pages_lines)
    /\ ~AtAnnex
    /\ LET lines == pages_lines[i + 1]
           h == heights[i + 1]
           keep == KeepLines(lines, h, top_rep, bot_rep)
           page_text == Strip(Join(keep, <<" ">>))
       IN  /\ cleaned_pages' = Append(cleaned_pages, page_text)
           /\ decisions' = Append(decisions,
                  [k \in DOMAIN lines |-> DropLine(lines[k], h, top_rep, bot_rep)])
    /\ i' = i + 1
    /\ UNCHANGED << doc, REMOVE_FROM_ANEXO, pc, heights, pages_lines, top_rep,
                    bot_rep, annex_start, result, detect_calls, annex_calls,
                    annex_assigns, config, otherVars >>

\* lines 283 to 301: one page is filtered
FilterPage ==
    /\ pc = "filter"
    /\ i < Len(pages_lines)
    /\ ~AtAnnex
    /\ LET lines == pages_lines[i + 1]
           h == heights[i + 1]
           keep == KeepLines(lines, h, top_rep, bot_rep)
           page_text == Strip(Join(keep, <<" ">>))
       IN  /\ cleaned_pages' = IF page_text # <<>>
                               THEN Append(cleaned_pages, page_text)
                               ELSE cleaned_pages
           /\ decisions' = Append(decisions,
                  [k \in DOMAIN lines |-> DropLine(lines[k], h, top_rep, bot_rep)])
    /\ i' = i + 1
    /\ UNCHANGED << doc, REMOVE_FROM_ANEXO, pc, heights, pages_lines, top_rep,
                    bot_rep, annex_start, result, detect_calls, annex_calls,
                    annex_assigns, config, otherVars >>

\* the loop of line 277 ends with the last page
ExhaustPages ==
    /\ pc = "filter"
    /\ i = Len(pages_lines)
    /\ pc' = "join"
    /\ UNCHANGED << doc, REMOVE_FROM_ANEXO, heights, pages_lines, top_rep, bot_rep,
                    annex_start, i, cleaned_pages, result, decisions, detect_calls,
                    annex_calls, annex_assigns, config, otherVars >>

\* lines 303 and 304
JoinPages ==
    /\ pc = "join"
    /\ result' = OrNone(Strip(Join(cleaned_pages, <<"\n">>)))
    /\ pc' = "done"
    /\ UNCHANGED << doc, REMOVE_FROM_ANEXO, heights, pages_lines, top_rep, bot_rep,
                    annex_start, i, cleaned_pages, decisions, detect_calls,
                    annex_calls, annex_assigns, config, otherVars >>

Next ==
    \/ ExtractPage
    \/ DetectHeadersFooters
    \/ FindAnnex
    \/ AnnexBreak
    \/ FilterPage
    \/ ExhaustPages
    \/ JoinPages

Spec == Init /\ [][Next]_vars

----------------------------------------------------------------------------
(* get_pdf_text_clean_from_doc on documents that have pages of height 0 *)

\* a page whose rect has no height: an annex title at 0, text at 50, a page
\* number at 90
PageFlat ==
    [height |-> 0,
     blocks |-> << Block(0, TextAnnex), Block(50, TextHeader),
                   Block(90, TextPageNo) >>]

FlatDocuments ==
    UNION {[1..n -> {PageFlat, PageRegular, PageAnnex}] : n \in 0..MaxFlatPages}

\* the entry of the call on one of the documents of D
InitOn(D) ==
    /\ doc \in D
    /\ REMOVE_FROM_ANEXO \in BOOLEAN
    /\ pc = "extract"
    /\ heights = <<>>
    /\ pages_lines = <<>>
    /\ top_rep = {}
    /\ bot_rep = {}
    /\ annex_start = None
    /\ i = 0
    /\ cleaned_pages = <<>>
    /\ result = None
    /\ decisions = <<>>
    /\ detect_calls = 0
    /\ annex_calls = 0
    /\ annex_assigns = 0
    /\ config = SettingsLoaded
    /\ NormIdle
    /\ ClassIdle
    /\ ParIdle
    /\ BatchIdle
    /\ PoolIdle

InitFlat == InitOn(FlatDocuments)

SpecFlat == InitFlat /\ [][Next]_vars

----------------------------------------------------------------------------
(* get_pdf_text_clean_from_doc on documents with a page that has the same   *)
(* texts in several zones                                                   *)

\* a page number, a stamp and the footer text twice at the top, an annex
\* title, the footer text and a stamp in the body, the footer twice in one
\* block and a stamp at the bottom
PageStamped ==
    [height |-> 100,
     blocks |-> << Block(10, TextPageNo), Block(10, TextStamp),
                   Block(10, TextFooterTwice),
                   Block(50, TextAnnex), Block(50, TextFooter),
                   Block(50, TextStampUpper),
                   Block(90, TextFooterTwice), Block(90, TextStampLower) >>]

StampedDocuments ==
    UNION {[1..n -> {PageStamped, PageRegular, PageAnnex}] : n \in 0..MaxStampedPages}

InitStamped == InitOn(StampedDocuments)

SpecStamped == InitStamped /\ [][Next]_vars

----------------------------------------------------------------------------
(* get_pdf_text_clean_from_doc on documents that have pages without lines   *)

SparseDocuments ==
    UNION {[1..n -> {PageStamped, PageEmpty, PageAnnex}] : n \in 0..MaxSparsePages}

InitSparse == InitOn(SparseDocuments)

SpecSparse == InitSparse /\ [][Next]_vars

----------------------------------------------------------------------------
(* get_pdf_text_clean_from_doc on documents that have pages of which no     *)
(* line is kept                                                             *)

\* a stamp in the body and a page number at the bottom: every line of the
\* page is dropped
PageStampOnly ==
    [height |-> 100,
     blocks |-> << Block(50, TextStampUpper), Block(90, TextPageNo) >>]

SegmentDocuments ==
    UNION {[1..n -> {PageStamped, PageRegular, PageEmpty, PageStampOnly, PageAnnex}] :
               n \in 0..MaxSegmentPages}

InitSegments == InitOn(SegmentDocuments)

SpecSegments == InitSegments /\ [][Next]_vars

----------------------------------------------------------------------------
(* normalize_line applied to the strings of at most MaxLen characters *)

PipeIdle ==
    /\ doc = <<>>
    /\ REMOVE_FROM_ANEXO = FALSE
    /\ pc = "off"
    /\ heights = <<>>
    /\ pages_lines = <<>>
    /\ top_rep = {}
    /\ bot_rep = {}
    /\ annex_start = None
    /\ i = 0
    /\ cleaned_pages = <<>>
    /\ result = None
    /\ decisions = <<>>
    /\ detect_calls = 0
    /\ annex_calls = 0
    /\ annex_assigns = 0

InitNormalize ==
    /\ NormInit
    /\ PipeIdle
    /\ config = SettingsLoaded
    /\ ClassIdle
    /\ ParIdle
    /\ BatchIdle
    /\ PoolIdle

NextNormalize ==
    \/ NormalizeOnce /\ UNCHANGED << pipeVars, config, classVars, workers, batch, pool >>
    \/ NormalizeTwice /\ UNCHANGED << pipeVars, config, classVars, workers, batch, pool >>

SpecNormalize == InitNormalize /\ [][NextNormalize]_vars

----------------------------------------------------------------------------
(* The line classifiers on their own.  A block line is made of at most      *)
(* MaxPieces pieces; extract_blocks normalizes it (line 152) and the        *)
(* classifiers are given the normalized line.                               *)

PieceTexts(P) == UNION {[1..k -> P] : k \in 0..MaxPieces}

ClassifyInit(P) ==
    /\ \E ps \in PieceTexts(P) : cl_raw = Join(ps, <<>>)
    /\ cl_line = <<>>
    /\ cl_page = FALSE
    /\ cl_remove = FALSE
    /\ cl_annex = FALSE
    /\ cl_pc = "start"
    /\ PipeIdle
    /\ config = SettingsLoaded
    /\ NormIdle
    /\ ParIdle
    /\ BatchIdle
    /\ PoolIdle

\* normalize_line, then the three classifiers on its result
ClassifyLine ==
    /\ cl_pc = "start"
    /\ cl_line' = normalize_line(cl_raw)
    /\ cl_page' = is_page_number(cl_line')
    /\ cl_remove' = should_remove_global(cl_line')
    /\ cl_annex' = looks_like_annex_title(cl_line')
    /\ cl_pc' = "done"
    /\ UNCHANGED << cl_raw, pipeVars, config, normVars, workers, batch, pool >>

NextClassify == ClassifyLine

\* the pieces of page numbers and of what resembles them
PageNumberPieces ==
    { <<"P", "a_acute", "g", "i", "n", "a", " ">>,
      <<"P", "A", "G", "I", "N", "A", " ">>,
      <<" ", "d", "e", " ">>,
      <<"3">>, <<"1", "0">>, <<" ">>, <<"/">> }

InitPageNumber == ClassifyInit(PageNumberPieces)

SpecPageNumber == InitPageNumber /\ [][NextClassify]_vars

\* the pieces of boilerplate, of protocol codes and of bill identifiers
RemoveGlobalPieces ==
    { <<"P", "L">>, <<" ">>, <<"n">>,
      <<"backquote", ".", "I", "B", "L">>,
      <<"1", "2", "3", "4">>, <<"/", "2", "5">>,
      <<"*">>, <<"c", "d", "1", "2", "3", "4", "5", "6">>,
      <<"M", "e", "s", "a">> }

InitRemoveGlobal == ClassifyInit(RemoveGlobalPieces)

\* the pieces of protocol codes: the asterisk, the prefix in three cases,
\* three digits, six digits, a space, a letter
ProtocolCodePieces ==
    { <<"*">>, <<"c", "d">>, <<"C", "D">>, <<"c", "D">>,
      <<"1", "2", "3">>, <<"2", "5", "7", "1", "5", "0">>,
      <<" ">>, <<"x">> }

InitProtocolCode == ClassifyInit(ProtocolCodePieces)

SpecProtocolCode == InitProtocolCode /\ [][NextClassify]_vars

SpecRemoveGlobal == InitRemoveGlobal /\ [][NextClassify]_vars

\* the pieces of annex titles: the word, a numeral, the word "UNICO" with its
\* acute accent, a separator, a separator followed by eight words, a word in
\* capitals, a final period, a small letter, a letter without case
AnnexTitlePieces ==
    { <<"A", "N", "E", "X", "O">>, <<" ", "I">>,
      <<" ", "U_acute", "N", "I", "C", "O">>,
      <<" ", "-", " ">>,
      <<" ", "-", " ", "A", " ", "B", " ", "C", " ", "D", " ", "E", " ", "F",
        " ", "G", " ", "H">>,
      <<"F", "I", "N", "A", "I", "S">>,
      <<".">>, <<"a">>, <<"ordm">> }

InitAnnexTitle == ClassifyInit(AnnexTitlePieces)

SpecAnnexTitle == InitAnnexTitle /\ [][NextClassify]_vars

----------------------------------------------------------------------------
(* get_pdf_text_clean_from_doc called by two threads, each on its own       *)
(* document.  What a call keeps is in its locals; the module-level settings *)
(* are read by both.  The steps of the two calls interleave freely.         *)

Threads == {"t1", "t2"}

ThreadDocuments == UNION {[1..n -> {PageRegular, PageAnnex}] : n \in 0..MaxThreadPages}

\* the locals at the entry of the call on document d
NewCall(d) ==
    [doc |-> d, pc |-> "extract", heights |-> <<>>, pages_lines |-> <<>>,
     top_rep |-> {}, bot_rep |-> {}, annex_start |-> None, i |-> 0,
     cleaned_pages |-> <<>>, result |-> None]

InitThreads ==
    /\ workers \in [Threads -> {NewCall(d) : d \in ThreadDocuments}]
    /\ REMOVE_FROM_ANEXO \in BOOLEAN
    /\ config = SettingsLoaded
    /\ doc = <<>>
    /\ pc = "off"
    /\ heights = <<>>
    /\ pages_lines = <<>>
    /\ top_rep = {}
    /\ bot_rep = {}
    /\ annex_start = None
    /\ i = 0
    /\ cleaned_pages = <<>>
    /\ result = None
    /\ decisions = <<>>
    /\ detect_calls = 0
    /\ annex_calls = 0
    /\ annex_assigns = 0
    /\ NormIdle
    /\ ClassIdle
    /\ BatchIdle
    /\ PoolIdle

\* thread t goes on with the locals w; nothing else changes
ThreadStep(t, w) ==
    /\ workers' = [workers EXCEPT ![t] = w]
    /\ UNCHANGED << pipeVars, config, normVars, classVars, batch, pool >>

\* one turn of the loop of lines 262 to 264
ThreadExtractPage(t) ==
    LET w == workers[t]
    IN  /\ w.pc = "extract"
        /\ Len(w.pages_lines) < Len(w.doc)
        /\ LET p == w.doc[Len(w.pages_lines) + 1]
           IN  ThreadStep(t, [w EXCEPT
                   !.heights = Append(w.heights, p.height),
                   !.pages_lines = Append(w.pages_lines, extract_blocks(p.blocks))])

\* line 267
ThreadDetectHeadersFooters(t) ==
    LET w == workers[t]
    IN  /\ w.pc = "extract"
        /\ Len(w.pages_lines) = Len(w.doc)
        /\ LET d == detect_headers_footers(w.pages_lines, w.heights)
           IN  ThreadStep(t, [w EXCEPT !.top_rep = d.top_rep, !.bot_rep = d.bot_rep,
                                       !.pc = "annex"])

\* line 270
ThreadFindAnnex(t) ==
    LET w == workers[t]
    IN  /\ w.pc = "annex"
        /\ ThreadStep(t, [w EXCEPT
               !.annex_start = IF REMOVE_FROM_ANEXO
                               THEN find_annex_start_page(w.pages_lines, w.heights)
                               ELSE None,
               !.i = 0,
               !.pc = "filter"])

\* lines 280 and 281
ThreadAnnexBreak(t) ==
    LET w == workers[t]
    IN  /\ w.pc = "filter"
        /\ w.i < Len(w.pages_lines)
        /\ w.annex_start.some /\ w.i >= w.annex_start.v
        /\ ThreadStep(t, [w EXCEPT !.pc = "join"])

\* the text of the page that thread t is about to filter
ThreadPageText(t) ==
    LET w == workers[t]
    IN  Strip(Join(KeepLines(w.pages_lines[w.i + 1], w.heights[w.i + 1],
                             w.top_rep, w.bot_rep), <<" ">>))

\* ThreadFilterPage with cleaned_pages a list that the calls share
ThreadFilterPageShared(t) ==
    LET w == workers[t]
        page_text == ThreadPageText(t)
    IN  /\ w.pc = "filter"
        /\ w.i < Len(w.pages_lines)
        /\ ~(w.annex_start.some /\ w.i >= w.annex_start.v)
        /\ workers' = [u \in Threads |->
               [workers[u] EXCEPT
                   !.cleaned_pages = IF page_text # <<>> THEN Append(@, page_text) ELSE @,
                   !.i = IF u = t THEN @ + 1 ELSE @]]
        /\ UNCHANGED << pipeVars, config, normVars, classVars, batch, pool >>

\* lines 283 to 301
ThreadFilterPage(t) ==
    LET w == workers[t]
        page_text == ThreadPageText(t)
    IN  /\ w.pc = "filter"
        /\ w.i < Len(w.pages_lines)
        /\ ~(w.annex_start.some /\ w.i >= w.annex_start.v)
        /\ ThreadStep(t, [w EXCEPT
               !.cleaned_pages = IF page_text # <<>> THEN Append(@, page_text) ELSE @,
               !.i = @ + 1])

\* the loop of line 277 ends with the last page
ThreadExhaustPages(t) ==
    LET w == workers[t]
    IN  /\ w.pc = "filter"
        /\ w.i = Len(w.pages_lines)
        /\ ThreadStep(t, [w EXCEPT !.pc = "join"])

\* lines 303 and 304
ThreadJoinPages(t) ==
    LET w == workers[t]
    IN  /\ w.pc = "join"
        /\ ThreadStep(t, [w EXCEPT
               !.result = OrNone(Strip(Join(w.cleaned_pages, <<"\n">>))),
               !.pc = "done"])

NextThreads ==
    \E t \in Threads :
        \/ ThreadExtractPage(t)
        \/ ThreadDetectHeadersFooters(t)
        \/ ThreadFindAnnex(t)
        \/ ThreadAnnexBreak(t)
        \/ ThreadFilterPage(t)
        \/ ThreadExhaustPages(t)
        \/ ThreadJoinPages(t)

SpecThreads == InitThreads /\ [][NextThreads]_vars

----------------------------------------------------------------------------
(* The batch run of the script (lines 322 to 363).  An item of the input    *)
(* list is a dict or something else.  Of a dict the model keeps its id,     *)
(* what prop.get("urlInteiroTeor") gives (None, or a string that may be     *)
(* empty) and the field textoInteiroTeorLimpo, absent or left by an earlier *)
(* run.  What the URL leads to is chosen when it is fetched: the stage of   *)
(* extract_pdf_from_url that raises, if any, and the document opened.       *)

\* the field is absent; the field holds x
Absent == [set |-> FALSE]

Holds(x) == [set |-> TRUE, v |-> x]

TextUrl == <<"h", "t", "t", "p", ":", "/", "/", "a">>

TextStale == <<"o", "l", "d">>

\* the items the input list is made of
ItemCatalog ==
    { [dict |-> FALSE],
      [dict |-> TRUE, id |-> 1, urlInteiroTeor |-> None,
       textoInteiroTeorLimpo |-> Holds(Some(TextStale))],
      [dict |-> TRUE, id |-> 2, urlInteiroTeor |-> Some(<<>>),
       textoInteiroTeorLimpo |-> Absent],
      [dict |-> TRUE, id |-> 3, urlInteiroTeor |-> Some(TextUrl),
       textoInteiroTeorLimpo |-> Absent] }

\* the documents behind the URLs: a page of which no line is kept, a page
\* with text
FetchedDocuments == { << PageStampOnly >>, << PageRegular >> }

\* what a URL leads to: requests.get raises (line 309), raise_for_status
\* raises (line 310), fitz.open raises (line 311), the cleaning raises
\* (line 312), or none of them does and the document d is cleaned
Fetches ==
    {[raises |-> st, d |-> <<>>] : st \in {"get", "status", "open", "clean"}}
    \cup {[raises |-> "nothing", d |-> d] : d \in FetchedDocuments}

\* an entry of the history of the run: what was done with an item, and
\* what its URL led to when it was fetched
Done(step, f) == [step |-> step, f |-> f]

NoFetch == [raises |-> "nothing", d |-> <<>>]

\* the outcome of a call: it returns x; it raises
Returns(x) == [raised |-> FALSE, v |-> x]

Raises == [raised |-> TRUE]

\* extract_pdf_from_url without the try statement
extract_pdf_from_url_unguarded(f) ==
    IF f.raises # "nothing" THEN Raises
    ELSE Returns(get_pdf_text_clean_from_doc(f.d))

\* lines 306 to 316: whatever is raised in the try block is caught
extract_pdf_from_url(f) ==
    IF f.raises # "nothing" THEN Returns(None)
    ELSE Returns(get_pdf_text_clean_from_doc(f.d))

InputLists == UNION {[1..n -> ItemCatalog] : n \in 0..MaxPropositions}

InitBatch ==
    /\ \E input \in InputLists :
           batch = [pc |-> "loop", input |-> input, proposicoes |-> input,
                    idx |-> 0, fetched |-> <<>>, out |-> None]
    /\ PipeIdle
    /\ config = SettingsLoaded
    /\ NormIdle
    /\ ClassIdle
    /\ ParIdle
    /\ PoolIdle

\* the batch run goes on with b; nothing else changes
BatchStep(b) ==
    /\ batch' = b
    /\ UNCHANGED << pipeVars, config, normVars, classVars, workers, pool >>

\* line 344: an item that is no dict is passed over
BatchSkipItem ==
    /\ batch.pc = "loop"
    /\ batch.idx < Len(batch.proposicoes)
    /\ ~batch.proposicoes[batch.idx + 1].dict
    /\ BatchStep([batch EXCEPT !.idx = @ + 1,
                               !.fetched = Append(@, Done("skipped", NoFetch))])

\* lines 346 to 354 when the URL is None or empty
BatchWithoutUrl ==
    /\ batch.pc = "loop"
    /\ batch.idx < Len(batch.proposicoes)
    /\ LET prop == batch.proposicoes[batch.idx + 1]
       IN  /\ prop.dict
           /\ ~(prop.urlInteiroTeor.some /\ prop.urlInteiroTeor.v # <<>>)
           /\ BatchStep([batch EXCEPT
                  !.proposicoes[batch.idx + 1].textoInteiroTeorLimpo = Holds(None),
                  !.idx = @ + 1,
                  !.fetched = Append(@, Done("no url", NoFetch))])

\* lines 346 to 352 when there is a URL: the text is extracted and stored;
\* an exception that leaves extract_pdf_from_url ends the script
BatchExtract ==
    /\ batch.pc = "loop"
    /\ batch.idx < Len(batch.proposicoes)
    /\ LET prop == batch.proposicoes[batch.idx + 1]
       IN  /\ prop.dict
           /\ prop.urlInteiroTeor.some /\ prop.urlInteiroTeor.v # <<>>
           /\ \E f \in Fetches :
                  LET texto_limpo == extract_pdf_from_url(f)
                  IN  IF texto_limpo.raised
                      THEN BatchStep([batch EXCEPT !.pc = "raised",
                                                   !.fetched = Append(@, Done("fetched", f))])
                      ELSE BatchStep([batch EXCEPT
                               !.proposicoes[batch.idx + 1].textoInteiroTeorLimpo
                                   = Holds(texto_limpo.v),
                               !.idx = @ + 1,
                               !.fetched = Append(@, Done("fetched", f))])

\* lines 357 to 361: the list is saved under the key "dados"
BatchSave ==
    /\ batch.pc = "loop"
    /\ batch.idx = Len(batch.proposicoes)
    /\ BatchStep([batch EXCEPT !.pc = "done", !.out = Some(batch.proposicoes)])

NextBatch ==
    \/ BatchSkipItem
    \/ BatchWithoutUrl
    \/ BatchExtract
    \/ BatchSave

SpecBatch == InitBatch /\ [][NextBatch]_vars

----------------------------------------------------------------------------
(* process_propositions_in_parallel (use_cases.py, lines 110 to 148).  The  *)
(* call of executor.map submits one task for each proposition; the worker   *)
(* threads take the tasks in that order and finish them in any order; the   *)
(* caller reads the results in the order of the tasks.  The text of the     *)
(* proposition at index k is written k.  What the LLM answers is chosen     *)
(* when the task ends, and so is the outcome of a batch insert.             *)

\* the answers to one call of the LLM: the call or the reading of its answer
\* raises, or a summary comes with a number of entities
LLMAnswers ==
    {[raises |-> TRUE, entities |-> 0]}
    \cup {[raises |-> FALSE, entities |-> n] : n \in {0, 2}}

\* lines 35 to 107: the rows of the summary and of the entities, or two empty
\* lists when anything raises
generate_proposition_summary_and_entities(proposition_id, full_text, answer) ==
    IF answer.raises THEN [summaries |-> <<>>, entities |-> <<>>]
    ELSE [summaries |-> << [id |-> proposition_id, text |-> full_text] >>,
          entities |-> [n \in 1..answer.entities |->
                           [id |-> proposition_id, text |-> full_text, entity |-> n]]]

\* a task that no worker has taken yet
Queued ==
    [state |-> "queued", answer |-> [raises |-> FALSE, entities |-> 0],
     summaries |-> <<>>, entities |-> <<>>]

IdLists == UNION {[1..n -> {1, 2}] : n \in 0..MaxTasks}

\* lines 120 to 128
InitPool ==
    /\ \E ids \in IdLists :
           pool = [pc |-> "collect", ids |-> ids, texts |-> [k \in DOMAIN ids |-> k],
                   tasks |-> [k \in DOMAIN ids |-> Queued], finished |-> <<>>,
                   i |-> 0, all_summaries |-> <<>>, all_entities |-> <<>>,
                   new_processed_ids |-> {},
                   summary_inserts |-> <<>>, entity_inserts |-> <<>>,
                   proposition_summary |-> {}, proposition_ner |-> {}]
    /\ PipeIdle
    /\ config = SettingsLoaded
    /\ NormIdle
    /\ ClassIdle
    /\ ParIdle
    /\ BatchIdle

\* the call goes on with q; nothing else changes
PoolStep(q) ==
    /\ pool' = q
    /\ UNCHANGED << pipeVars, config, normVars, classVars, workers, batch >>

\* a free worker thread takes the first task of the queue
PoolTakeTask ==
    /\ \E k \in DOMAIN pool.tasks :
           /\ pool.tasks[k].state = "queued"
           /\ \A j \in 1..(k - 1) : pool.tasks[j].state # "queued"
           /\ Cardinality({j \in DOMAIN pool.tasks : pool.tasks[j].state = "running"})
                  < MaxWorkers
           /\ PoolStep([pool EXCEPT !.tasks[k].state = "running"])

\* a worker thread ends its call of generate_proposition_summary_and_entities
PoolFinishTask ==
    /\ \E k \in DOMAIN pool.tasks : \E answer \in LLMAnswers :
           /\ pool.tasks[k].state = "running"
           /\ LET r == generate_proposition_summary_and_entities(
                            pool.ids[k], pool.texts[k], answer)
              IN  PoolStep([pool EXCEPT
                      !.tasks[k] = [state |-> "done", answer |-> answer,
                                    summaries |-> r.summaries,
                                    entities |-> r.entities],
                      !.finished = Append(@, k)])

\* PoolCollect that keeps a result when its summaries are not empty
PoolCollectWithSummary ==
    /\ pool.pc = "collect"
    /\ pool.i < Len(pool.ids)
    /\ pool.tasks[pool.i + 1].state = "done"
    /\ LET summaries == pool.tasks[pool.i + 1].summaries
           entities == pool.tasks[pool.i + 1].entities
           current_id == pool.ids[pool.i + 1]
       IN  IF summaries # <<>>
           THEN PoolStep([pool EXCEPT
                    !.all_summaries = @ \o summaries,
                    !.all_entities = @ \o entities,
                    !.new_processed_ids = @ \cup {current_id},
                    !.i = @ + 1])
           ELSE PoolStep([pool EXCEPT !.i = @ + 1])

\* lines 130 to 138: one turn of the loop over the results, which waits for
\* the result of the task at index i
PoolCollect ==
    /\ pool.pc = "collect"
    /\ pool.i < Len(pool.ids)
    /\ pool.tasks[pool.i + 1].state = "done"
    /\ LET summaries == pool.tasks[pool.i + 1].summaries
           entities == pool.tasks[pool.i + 1].entities
           current_id == pool.ids[pool.i + 1]
       IN  IF summaries # <<>> /\ entities # <<>>
           THEN PoolStep([pool EXCEPT
                    !.all_summaries = @ \o summaries,
                    !.all_entities = @ \o entities,
                    !.new_processed_ids = @ \cup {current_id},
                    !.i = @ + 1])
           ELSE PoolStep([pool EXCEPT !.i = @ + 1])

\* the end of the with statement of line 127: the executor is shut down once
\* no task is queued or running
PoolShutdown ==
    /\ pool.pc = "collect"
    /\ pool.i = Len(pool.ids)
    /\ \A k \in DOMAIN pool.tasks : pool.tasks[k].state = "done"
    /\ PoolStep([pool EXCEPT !.pc = "summaries"])

\* lines 140 to 142: execute_batch_insert commits the rows or rolls back and
\* raises
PoolInsertSummaries ==
    /\ pool.pc = "summaries"
    /\ IF pool.all_summaries = <<>>
       THEN PoolStep([pool EXCEPT !.pc = "entities"])
       ELSE \E committed \in BOOLEAN :
                PoolStep([pool EXCEPT
                    !.summary_inserts = Append(@, pool.all_summaries),
                    !.proposition_summary =
                        IF committed THEN @ \cup Range(pool.all_summaries) ELSE @,
                    !.pc = IF committed THEN "entities" ELSE "raised"])

\* lines 144 to 146
PoolInsertEntities ==
    /\ pool.pc = "entities"
    /\ IF pool.all_entities = <<>>
       THEN PoolStep([pool EXCEPT !.pc = "done"])
       ELSE \E committed \in BOOLEAN :
                PoolStep([pool EXCEPT
                    !.entity_inserts = Append(@, pool.all_entities),
                    !.proposition_ner =
                        IF committed THEN @ \cup Range(pool.all_entities) ELSE @,
                    !.pc = IF committed THEN "done" ELSE "raised"])

NextPool ==
    \/ PoolTakeTask
    \/ PoolFinishTask
    \/ PoolCollect
    \/ PoolShutdown
    \/ PoolInsertSummaries
    \/ PoolInsertEntities

SpecPool == InitPool /\ [][NextPool]_vars

----------------------------------------------------------------------------
(* Properties of get_pdf_text_clean_from_doc *)

IsEdgeTrimmed(s) ==
    s # <<>> /\ s[1] \notin WhitespaceChars /\ s[Len(s)] \notin WhitespaceChars

HasLines == \E p \in DOMAIN pages_lines : pages_lines[p] # <<>>

NoBlocks == \A p \in DOMAIN doc : doc[p].blocks = <<>>

\* the four exclusion rules, on line k of page p (one-based)
ClaimDrops(p, k) ==
    LET l == pages_lines[p][k]
        h == heights[p]
    IN  \/ should_remove_global(l.line)
        \/ l.line \in top_rep /\ InTopZone(l.y0, h)
        \/ l.line \in bot_rep /\ InBottomZone(l.y0, h)
        \/ is_page_number(l.line) /\ (InTopZone(l.y0, h) \/ InBottomZone(l.y0, h))

\* the lines of page p from line k on that no rule excludes, in order
RECURSIVE Survivors(_, _)
Survivors(p, k) ==
    IF k > Len(pages_lines[p]) THEN <<>>
    ELSE (IF ClaimDrops(p, k) THEN <<>> ELSE << pages_lines[p][k].line >>)
         \o Survivors(p, k + 1)

\* the texts of the pages 1..m that have a surviving line, in order
RECURSIVE SurvivingTexts(_)
SurvivingTexts(m) ==
    IF m = 0 THEN <<>>
    ELSE LET s == Survivors(m, 1)
         IN  SurvivingTexts(m - 1) \o (IF s = <<>> THEN <<>> ELSE << Join(s, <<" ">>) >>)

\* the number of pages whose top (bottom) candidates contain the text l
TopPresence(l) ==
    Cardinality({p \in DOMAIN pages_lines : l \in TopCandidates(pages_lines[p], heights[p])})

BottomPresence(l) ==
    Cardinality({p \in DOMAIN pages_lines : l \in BottomCandidates(pages_lines[p], heights[p])})

AllTexts == UNION {{pages_lines[p][k].line : k \in DOMAIN pages_lines[p]} : p \in DOMAIN pages_lines}

\* the zero-based indexes of the pages with an annex title in the annex zone
ClaimAnnexCandidates ==
    {p - 1 : p \in {q \in DOMAIN pages_lines :
        \E k \in DOMAIN pages_lines[q] :
            /\ looks_like_annex_title(pages_lines[q][k].line)
            /\ pages_lines[q][k].y0 * 100 <= TOP_FRAC_ANNEX * heights[q]}}

\* C1: the value returned is None or a non-empty string without leading or
\* trailing whitespace, never the empty or a whitespace-only string.
C1_NoneOrTrimmedText ==
    pc = "done" => (IF result.some THEN IsEdgeTrimmed(result.v) ELSE result = None)

\* lines were extracted, all of them were dropped, and None is returned
C1_Witness == pc = "done" /\ HasLines /\ cleaned_pages = <<>> /\ result = None

\* C2: a document without pages, or whose pages all have no text block, is
\* cleaned to the end and gives None, with annex truncation on or off; a page
\* without text blocks gives no line.
C2_EmptyDocumentGivesNone ==
    /\ \A p \in DOMAIN pages_lines : doc[p].blocks = <<>> => pages_lines[p] = <<>>
    /\ NoBlocks => /\ pc # "done" => ENABLED Next
                   /\ pc = "done" => result = None

\* a document of several pages without blocks was cleaned with truncation on
C2_Witness ==
    pc = "done" /\ Len(doc) >= 2 /\ NoBlocks /\ REMOVE_FROM_ANEXO /\ result = None

\* C3: when the loop over the pages is left, on every page that was filtered
\* a line was dropped exactly when one of the four rules excludes it, and the
\* page's text is made of the other lines.
C3_DropsExactlyFlagged ==
    pc = "join" =>
        /\ \A p \in DOMAIN decisions : \A k \in DOMAIN pages_lines[p] :
               decisions[p][k] = ClaimDrops(p, k)
        /\ cleaned_pages = SurvivingTexts(Len(decisions))

\* a header text outside the top zone, a footer text outside the bottom zone
\* and a page number outside both zones were kept, and a line was dropped
C3_Witness ==
    /\ pc = "done"
    /\ \E p \in DOMAIN decisions : \E k \in DOMAIN pages_lines[p] :
           /\ pages_lines[p][k].line \in top_rep
           /\ ~InTopZone(pages_lines[p][k].y0, heights[p])
           /\ ~decisions[p][k]
    /\ \E p \in DOMAIN decisions : \E k \in DOMAIN pages_lines[p] :
           /\ pages_lines[p][k].line \in bot_rep
           /\ ~InBottomZone(pages_lines[p][k].y0, heights[p])
           /\ ~decisions[p][k]
    /\ \E p \in DOMAIN decisions : \E k \in DOMAIN pages_lines[p] :
           /\ is_page_number(pages_lines[p][k].line)
           /\ ~decisions[p][k]
    /\ \E p \in DOMAIN decisions : \E k \in DOMAIN pages_lines[p] : decisions[p][k]

\* C4: when detect_headers_footers returns, a text is a header exactly when the number of pages with it among
\* their top candidates is at least REPEAT_THRESHOLD times the number of
\* pages, and a footer likewise with the bottom candidates.
C4_RepeatedOnEnoughPages ==
    pc = "annex" =>
        /\ top_rep = {l \in AllTexts : TopPresence(l) * 100 >= REPEAT_THRESHOLD * Len(pages_lines)}
        /\ bot_rep = {l \in AllTexts : BottomPresence(l) * 100 >= REPEAT_THRESHOLD * Len(pages_lines)}

\* five pages: a text on exactly two of them is a header, a text at the top
\* of one page only is not
C4_Witness ==
    /\ pc = "annex"
    /\ Len(pages_lines) = 5
    /\ \E l \in top_rep : TopPresence(l) = 2
    /\ \E l \in AllTexts : TopPresence(l) = 1 /\ l \notin top_rep
    /\ \E l \in bot_rep : BottomPresence(l) = 2

\* C5: with an annex boundary b, only pages of index below b are filtered and
\* the text returned is made of their surviving lines alone.
C5_NothingFromAnnexOn ==
    annex_start.some =>
        /\ i <= annex_start.v
        /\ Len(decisions) <= annex_start.v
        /\ pc = "done" =>
               /\ Len(decisions) = annex_start.v
               /\ LET text == Strip(Join(SurvivingTexts(annex_start.v), <<"\n">>))
                  IN  result = IF text = <<>> THEN None ELSE Some(text)

\* text was returned and a page after the boundary page has lines
C5_Witness ==
    /\ pc = "done"
    /\ annex_start.some
    /\ result.some
    /\ annex_start.v + 2 <= Len(doc)
    /\ pages_lines[Len(doc)] # <<>>

\* C6 as stated: the last candidate is accepted as the boundary only at an
\* index of at least half the number of pages, the division being exact; a
\* last candidate below that gives no boundary and every page is filtered.
C6_AcceptedOnlyFromExactHalf ==
    (REMOVE_FROM_ANEXO /\ pc \in {"join", "done"}) =>
        /\ annex_start.some => 2 * annex_start.v >= Len(pages_lines)
        /\ (ClaimAnnexCandidates # {} /\ 2 * SetMax(ClaimAnnexCandidates) < Len(pages_lines)) =>
               (annex_start = None /\ Len(decisions) = Len(doc))

\* C6 as amended: with truncation on, the last candidate is the boundary
\* exactly when its index is at least the number of pages divided by two and
\* rounded down; a last candidate below that gives no boundary and every
\* page is filtered.
C6_AcceptedFromFloorHalf ==
    (REMOVE_FROM_ANEXO /\ pc \in {"join", "done"} /\ ClaimAnnexCandidates # {}) =>
        LET last == SetMax(ClaimAnnexCandidates)
        IN  IF last >= Len(pages_lines) \div 2
            THEN annex_start = Some(last)
            ELSE annex_start = None /\ Len(decisions) = Len(doc)

\* the middle page of a document with an odd number of pages is the boundary
C6_Witness ==
    /\ pc = "done"
    /\ Len(doc) = 5
    /\ annex_start = Some(2)

\* C7: the boundary, when there is one, is a candidate page and the last of
\* them; the candidate pages before it are filtered like any other page.
C7_LastCandidateOnly ==
    (REMOVE_FROM_ANEXO /\ pc = "done") =>
        /\ annex_start.some =>
               /\ annex_start.v \in ClaimAnnexCandidates
               /\ \A c \in ClaimAnnexCandidates :
                      c <= annex_start.v /\ (c < annex_start.v => c + 1 \in DOMAIN decisions)
        /\ ClaimAnnexCandidates = {} => annex_start = None

\* two candidates in the second half, the later one is the boundary, and a
\* page with an annex title outside the annex zone is no candidate
C7_Witness ==
    /\ pc = "done"
    /\ annex_start.some
    /\ \E c \in ClaimAnnexCandidates :
           c < annex_start.v /\ c >= Len(doc) \div 2 /\ c + 1 \in DOMAIN decisions
    /\ \E p \in DOMAIN pages_lines :
           /\ p - 1 \notin ClaimAnnexCandidates
           /\ \E k \in DOMAIN pages_lines[p] : looks_like_annex_title(pages_lines[p][k].line)

\* C8: with truncation off the annex detector is never called, the boundary
\* is None and every page of the document is filtered.
C8_DisabledKeepsEveryPage ==
    ~REMOVE_FROM_ANEXO =>
        /\ annex_calls = 0
        /\ annex_start = None
        /\ ~ENABLED AnnexBreak
        /\ pc \in {"join", "done"} => Len(decisions) = Len(doc)

\* truncation is off, the document has an annex the detector would accept,
\* and all its pages were filtered
C8_Witness ==
    /\ pc = "done"
    /\ ~REMOVE_FROM_ANEXO
    /\ Len(doc) >= 2
    /\ find_annex_start_page(pages_lines, heights).some
    /\ Len(decisions) = Len(doc)

\* C9: the header set, the footer set and the annex boundary are each set
\* once, when every page has been extracted and no line has been decided, and
\* none of them changes afterwards.
C9_TwoPass ==
    /\ [](/\ detect_calls <= 1
          /\ annex_assigns <= 1
          /\ annex_calls <= 1
          /\ (decisions # <<>> \/ pc \in {"filter", "join", "done"}) =>
                 (detect_calls = 1 /\ annex_assigns = 1 /\ Len(pages_lines) = Len(doc)))
    /\ [][/\ (detect_calls' # detect_calls \/ annex_assigns' # annex_assigns) =>
                 (decisions = <<>> /\ Len(pages_lines) = Len(doc))
          /\ detect_calls = 1 => (top_rep' = top_rep /\ bot_rep' = bot_rep)
          /\ annex_assigns = 1 => annex_start' = annex_start
          /\ pages_lines # pages_lines' => detect_calls = 0]_vars

\* lines are being decided with a header set and an annex boundary in place
C9_Witness ==
    /\ pc = "filter"
    /\ decisions # <<>>
    /\ i < Len(doc)
    /\ top_rep # {}
    /\ annex_start.some

----------------------------------------------------------------------------
(* Properties of normalize_line *)

\* s has a run of n or more characters of class C
HasRun(s, C, n) == \E k \in 1..Len(s) : RunLen(s, k, C) >= n

IsNormal(s) ==
    /\ s \in Seq(AllChars)
    /\ s # <<>> => IsEdgeTrimmed(s)
    /\ ~HasRun(s, WhitespaceChars, 2)
    /\ ~HasRun(s, NoiseChars, 3)

\* C10: normalize_line gives a string for every string; the result has no
\* whitespace at its ends, no two whitespace characters in a row and no three
\* noise characters in a row, and normalizing it again changes nothing.
C10_NormalizeIdempotent ==
    /\ npc \in {"once", "twice"} => IsNormal(nout)
    /\ npc = "twice" => nout2 = nout

\* a string with a run of dots next to whitespace was normalized twice
C10_Witness ==
    /\ npc = "twice"
    /\ HasRun(ns, NoiseChars, 3)
    /\ HasRun(ns, WhitespaceChars, 2)
    /\ nout # <<>>
    /\ nout # ns

----------------------------------------------------------------------------
(* Properties of the line classifiers *)

\* the words of a normalized line: what lies between its spaces
RECURSIVE SplitWords(_, _)
SplitWords(s, word) ==
    IF s = <<>> THEN << word >>
    ELSE IF Head(s) = " " THEN << word >> \o SplitWords(Tail(s), <<>>)
    ELSE SplitWords(Tail(s), Append(word, Head(s)))

IsDigitGroup(w) == Len(w) \in 1..4 /\ \A k \in DOMAIN w : w[k] \in Digits

\* the word "Pagina" written with its acute accent, in any case
IsAccentedPageWord(w) == casefold(w) = <<"p", "a_acute", "g", "i", "n", "a">>

\* the same word with or without the accent
IsPageWord(w) ==
    casefold(w) \in { <<"p", "a_acute", "g", "i", "n", "a">>,
                      <<"p", "a", "g", "i", "n", "a">> }

IsDeWord(w) == casefold(w) = <<"d", "e">>

\* two groups of digits around a slash, spaces allowed beside the slash only
IsSlashForm(line) ==
    \E k \in DOMAIN line :
        /\ line[k] = "/"
        /\ IsDigitGroup(Strip(SubSeq(line, 1, k - 1)))
        /\ IsDigitGroup(Strip(SubSeq(line, k + 1, Len(line))))

\* the three forms of a page number, for a given reading of the word
IsPageNumberForm(line, PageWord(_)) ==
    LET w == SplitWords(line, <<>>)
    IN  \/ Len(w) = 1 /\ IsDigitGroup(w[1])
        \/ Len(w) = 2 /\ PageWord(w[1]) /\ IsDigitGroup(w[2])
        \/ /\ Len(w) = 4
           /\ PageWord(w[1]) /\ IsDigitGroup(w[2])
           /\ IsDeWord(w[3]) /\ IsDigitGroup(w[4])
        \/ IsSlashForm(line)

\* C11 as stated: is_page_number answers for every normalized line, and
\* answers true exactly for 1 to 4 digits, for the word "Pagina" with its
\* accent, in any case, followed by 1 to 4 digits and optionally by "de" and
\* 1 to 4 digits, and for two groups of 1 to 4 digits around a slash
C11_ExactlyTheAccentedForms ==
    cl_pc = "done" =>
        /\ cl_page \in BOOLEAN
        /\ cl_page = IsPageNumberForm(cl_line, IsAccentedPageWord)

\* C11 amended: the same, the word being accepted with or without its accent
C11_ExactlyTheForms ==
    cl_pc = "done" =>
        /\ cl_page \in BOOLEAN
        /\ cl_page = IsPageNumberForm(cl_line, IsPageWord)

\* a line of the form "pagina 3 de 10" was classified as a page number
C11_Witness ==
    /\ cl_pc = "done"
    /\ cl_page
    /\ Len(SplitWords(cl_line, <<>>)) = 4

----------------------------------------------------------------------------
(* Properties of the rules of get_pdf_text_clean_from_doc *)

\* the text contains one of the banned substrings, whatever its case
IsBoilerplate(line) ==
    \E b \in Range(BANNED_SUBSTRS) : Contains(casefold(line), b)

\* line k of page p is boilerplate and was dropped
DroppedBoilerplate(p, k) ==
    IsBoilerplate(pages_lines[p][k].line) /\ decisions[p][k]

\* C12: when the loop over the pages is left, on every page that was filtered
\* every line whose case-folded text contains a banned substring was dropped,
\* in the top zone, in the bottom zone and in the body, in the header or
\* footer set or not, and no such line is among the lines kept.
C12_BoilerplateDroppedAnywhere ==
    pc = "join" =>
        \A p \in DOMAIN decisions :
            /\ \A k \in DOMAIN pages_lines[p] :
                   IsBoilerplate(pages_lines[p][k].line) => decisions[p][k]
            /\ LET keep == KeepLines(pages_lines[p], heights[p], top_rep, bot_rep)
               IN  \A k \in DOMAIN keep : ~IsBoilerplate(keep[k])

\* on one page a stamp was dropped in the top zone, one in the body and one in
\* the bottom zone, the first being a header and the second in neither set
C12_Witness ==
    /\ pc = "join"
    /\ \E p \in DOMAIN decisions :
           /\ \E k \in DOMAIN pages_lines[p] :
                  /\ DroppedBoilerplate(p, k)
                  /\ InTopZone(pages_lines[p][k].y0, heights[p])
                  /\ pages_lines[p][k].line \in top_rep
           /\ \E k \in DOMAIN pages_lines[p] :
                  /\ DroppedBoilerplate(p, k)
                  /\ ~InTopZone(pages_lines[p][k].y0, heights[p])
                  /\ ~InBottomZone(pages_lines[p][k].y0, heights[p])
                  /\ pages_lines[p][k].line \notin top_rep \cup bot_rep
           /\ \E k \in DOMAIN pages_lines[p] :
                  /\ DroppedBoilerplate(p, k)
                  /\ InBottomZone(pages_lines[p][k].y0, heights[p])

----------------------------------------------------------------------------
(* Properties of should_remove_global *)

StartsWith(s, pre) == Len(s) >= Len(pre) /\ SubSeq(s, 1, Len(pre)) = pre

DropFirst(s, n) == SubSeq(s, n + 1, Len(s))

RECURSIVE DropWhile(_, _)
DropWhile(s, C) ==
    IF s # <<>> /\ Head(s) \in C THEN DropWhile(Tail(s), C) ELSE s

DropOptional(s, c) == IF s # <<>> /\ Head(s) = c THEN Tail(s) ELSE s

IsDigitsBetween(w, lo, hi) ==
    Len(w) \in lo..hi /\ \A k \in DOMAIN w : w[k] \in Digits

\* the whole line, in any case, is "pl", whitespace or none, an optional "n",
\* a backquote, a dot, "ibl", an optional "e", any number of "s", 1 to 6
\* digits, a slash or hyphen, 2 to 4 digits
IsMalformedBillId(line) ==
    LET t == casefold(Strip(line))
    IN  /\ StartsWith(t, <<"p", "l">>)
        /\ LET a == DropOptional(DropWhile(DropFirst(t, 2), WhitespaceChars), "n")
           IN  /\ StartsWith(a, <<"backquote", ".", "i", "b", "l">>)
               /\ LET c == DropWhile(DropOptional(DropFirst(a, 5), "e"), {"s"})
                  IN  \E k \in DOMAIN c :
                          /\ c[k] \in {"/", "-"}
                          /\ IsDigitsBetween(SubSeq(c, 1, k - 1), 1, 6)
                          /\ IsDigitsBetween(SubSeq(c, k + 1, Len(c)), 2, 4)

\* a short bill identifier on its own, such as "PL 1234/25"
IsShortBillId(line) ==
    LET t == casefold(Strip(line))
    IN  /\ StartsWith(t, <<"p", "l">>)
        /\ LET c == DropWhile(DropFirst(t, 2), WhitespaceChars)
           IN  \E k \in DOMAIN c :
                   /\ c[k] \in {"/", "-"}
                   /\ IsDigitsBetween(SubSeq(c, 1, k - 1), 1, 6)
                   /\ IsDigitsBetween(SubSeq(c, k + 1, Len(c)), 2, 4)

----------------------------------------------------------------------------
(* Properties of looks_like_annex_title *)

AnnexNumeralChars == {"I", "V", "X", "L", "C", "D", "M"} \cup Digits

AnnexSeparatorChars == {"-", "ndash", "mdash", ":"}

\* nothing, or a separator, after whitespace or none, and then any text
IsSeparatedText(t) ==
    t = <<>> \/ LET u == DropWhile(t, WhitespaceChars)
                IN  u # <<>> /\ Head(u) \in AnnexSeparatorChars

\* "ANEXO", optionally whitespace and a numeral or, where unico holds, the
\* word "UNICO" with its acute accent, optionally a separator and text
IsAnnexForm(s, unico) ==
    /\ StartsWith(s, <<"A", "N", "E", "X", "O">>)
    /\ LET r == DropFirst(s, 5)
           w == DropWhile(r, WhitespaceChars)
       IN  \/ IsSeparatedText(r)
           \/ /\ w # r /\ w # <<>> /\ Head(w) \in AnnexNumeralChars
              /\ IsSeparatedText(DropWhile(w, AnnexNumeralChars))
           \/ /\ unico
              /\ w # r /\ StartsWith(w, <<"U_acute", "N", "I", "C", "O">>)
              /\ IsSeparatedText(DropFirst(w, 5))

\* the words of a normalized line that are not empty
WordsOf(s) == {k \in DOMAIN SplitWords(s, <<>>) : SplitWords(s, <<>>)[k] # <<>>}

\* at least nine in ten of the alphabetic characters are capitals
IsMostlyUpper(s) ==
    LET letters == {k \in DOMAIN s : isalpha(s[k])}
        uppers == {k \in letters : isupper(s[k])}
    IN  10 * Cardinality(uppers) >= 9 * Cardinality(letters)

\* the conditions of an annex title on a normalized line
IsAnnexTitle(s, unico) ==
    /\ IsAnnexForm(s, unico)
    /\ ~(s # <<>> /\ s[Len(s)] = ".")
    /\ Cardinality(WordsOf(s)) <= 10
    /\ IsMostlyUpper(s)
    /\ STRICT_UPPERCASE_ANNEX => s = upper(s)

\* C14: looks_like_annex_title is true exactly for the lines that are "ANEXO",
\* optionally a roman or arabic numeral or the word "UNICO" with its accent,
\* optionally a separator and free text, that do not end with a period, have
\* at most 10 words, have at least 0.90 of their letters in capitals and, in
\* strict mode, equal their uppercase transform; "ANEXO UNICO" is one.
C14_AnnexTitleExactly ==
    cl_pc = "done" => cl_annex = IsAnnexTitle(cl_line, TRUE)

----------------------------------------------------------------------------
(* Properties of the texts that are not repeated *)

\* the pages with a line of text t in their top (bottom) zone
TopZonePages(t) ==
    {p \in DOMAIN pages_lines : \E k \in DOMAIN pages_lines[p] :
        pages_lines[p][k].line = t /\ InTopZone(pages_lines[p][k].y0, heights[p])}

BottomZonePages(t) ==
    {p \in DOMAIN pages_lines : \E k \in DOMAIN pages_lines[p] :
        pages_lines[p][k].line = t /\ InBottomZone(pages_lines[p][k].y0, heights[p])}

IsPlainText(t) == ~IsBoilerplate(t) /\ ~is_page_number(t)

\* on the pages that were filtered, a line of text t was dropped only as a
\* footer in the bottom zone (as a header in the top zone)
DroppedOnlyAsFooter(t) ==
    \A p \in DOMAIN decisions : \A k \in DOMAIN pages_lines[p] :
        pages_lines[p][k].line = t /\ decisions[p][k]
            => t \in bot_rep /\ InBottomZone(pages_lines[p][k].y0, heights[p])

DroppedOnlyAsHeader(t) ==
    \A p \in DOMAIN decisions : \A k \in DOMAIN pages_lines[p] :
        pages_lines[p][k].line = t /\ decisions[p][k]
            => t \in top_rep /\ InTopZone(pages_lines[p][k].y0, heights[p])

\* C15 as stated: whatever the number of pages, a text in the top zone of only
\* one page is not a header, a text in the bottom zone of only one page is
\* not a footer, and such a text that is neither boilerplate nor a page
\* number is kept on every filtered page where it occurs (no rule drops it
\* but the one of the other zone).
C15_OneOffKeptWhateverThePages ==
    pc = "join" =>
        \A t \in AllTexts :
            /\ Cardinality(TopZonePages(t)) = 1 =>
                   t \notin top_rep /\ (IsPlainText(t) => DroppedOnlyAsFooter(t))
            /\ Cardinality(BottomZonePages(t)) = 1 =>
                   t \notin bot_rep /\ (IsPlainText(t) => DroppedOnlyAsHeader(t))

\* C15 amended: in a document of three or more pages, a text in the top zone
\* of only one page is not a header, a text in the bottom zone of only one
\* page is not a footer, and such a text that is neither boilerplate nor a
\* page number is kept on every filtered page where it occurs, except as a
\* footer in the bottom zone (respectively as a header in the top zone).
C15_OneOffKeptFromThreePages ==
    pc = "join" /\ Len(doc) >= 3 =>
        \A t \in AllTexts :
            /\ Cardinality(TopZonePages(t)) = 1 =>
                   t \notin top_rep /\ (IsPlainText(t) => DroppedOnlyAsFooter(t))
            /\ Cardinality(BottomZonePages(t)) = 1 =>
                   t \notin bot_rep /\ (IsPlainText(t) => DroppedOnlyAsHeader(t))

\* in a document of three pages a text at the top of one page only, and in
\* the body of another, was kept on both
C15_Witness ==
    /\ pc = "join"
    /\ Len(doc) = 3
    /\ \E t \in AllTexts :
           /\ Cardinality(TopZonePages(t)) = 1
           /\ IsPlainText(t)
           /\ t \notin top_rep
           /\ Cardinality({p \in DOMAIN decisions : \E k \in DOMAIN pages_lines[p] :
                  pages_lines[p][k].line = t /\ ~decisions[p][k]}) >= 2
           /\ \E p \in DOMAIN decisions : \E k \in DOMAIN pages_lines[p] :
                  /\ pages_lines[p][k].line = t
                  /\ InTopZone(pages_lines[p][k].y0, heights[p])
                  /\ ~decisions[p][k]

----------------------------------------------------------------------------
(* Properties of calls that run at the same time *)

\* C16: whatever the interleaving of the steps of the calls, a call that has
\* returned gives its document the result of cleaning it alone, and a step
\* of one call leaves the locals of the other calls as they are.
C16_ResultAsAlone ==
    /\ [](\A t \in Threads :
            workers[t].pc = "done" => workers[t].result = CleanedAlone(workers[t].doc))
    /\ [][\E t \in Threads : \A u \in Threads \ {t} : workers'[u] = workers[u]]_vars

\* one call has returned a text while the other, on another document, is in
\* its loop over the pages, one page filtered
C16_Witness ==
    /\ workers["t1"].pc = "done"
    /\ workers["t1"].result.some
    /\ workers["t2"].pc = "filter"
    /\ workers["t2"].i = 1
    /\ workers["t2"].doc # workers["t1"].doc
    /\ workers["t2"].cleaned_pages # <<>>

----------------------------------------------------------------------------
(* Properties of the module-level settings *)

\* C17: no step of get_pdf_text_clean_from_doc changes a setting: TOP_FRAC,
\* BOTTOM_FRAC, REPEAT_THRESHOLD, TOP_FRAC_ANNEX, STRICT_UPPERCASE_ANNEX,
\* REMOVE_FROM_ANEXO and BANNED_SUBSTRS are after every step, and so after
\* the call, what they were before it.
C17_SettingsUnchanged ==
    /\ [][config' = config /\ REMOVE_FROM_ANEXO' = REMOVE_FROM_ANEXO]_vars
    /\ [](config = SettingsLoaded)

\* a call has returned a text after it detected headers, found an annex and
\* filtered pages, and the settings are those the module was loaded with
C17_Witness ==
    /\ pc = "done"
    /\ result.some
    /\ top_rep # {}
    /\ annex_start.some
    /\ REMOVE_FROM_ANEXO
    /\ config = SettingsLoaded

----------------------------------------------------------------------------
(* Properties of detect_headers_footers *)

\* the text t is in the top (bottom) zone of enough pages to be repeated
OftenAtTop(t) == Cardinality(TopZonePages(t)) * 100 >= REPEAT_THRESHOLD * Len(pages_lines)

OftenAtBottom(t) == Cardinality(BottomZonePages(t)) * 100 >= REPEAT_THRESHOLD * Len(pages_lines)

\* C18: when detect_headers_footers has returned, no header is a text that
\* is_page_number flags, however many pages have it in their top zone, while
\* a text that is_page_number flags and that is in the bottom zone of enough
\* pages is a footer.
C18_NoPageNumberAmongHeaders ==
    pc = "annex" =>
        /\ \A t \in top_rep : ~is_page_number(t)
        /\ \A t \in AllTexts : is_page_number(t) /\ OftenAtBottom(t) => t \in bot_rep

\* a page number is at the top of enough pages and at the bottom of enough
\* pages: it is a footer and not a header
C18_Witness ==
    /\ pc = "annex"
    /\ \E t \in AllTexts :
           /\ is_page_number(t)
           /\ OftenAtTop(t)
           /\ OftenAtBottom(t)
           /\ t \in bot_rep
           /\ t \notin top_rep

\* the number of lines of text t in the top (bottom) zone of page p
TopOccurrences(t, p) ==
    Cardinality({k \in DOMAIN pages_lines[p] :
        pages_lines[p][k].line = t /\ InTopZone(pages_lines[p][k].y0, heights[p])})

BottomOccurrences(t, p) ==
    Cardinality({k \in DOMAIN pages_lines[p] :
        pages_lines[p][k].line = t /\ InBottomZone(pages_lines[p][k].y0, heights[p])})

\* C19: when detect_headers_footers has returned, the top count of a text is
\* the number of pages that have it in their top zone, its bottom count the
\* number of pages that have it in their bottom zone, however many times a
\* page has it there; no count exceeds the number of pages.
C19_CountsArePagePresence ==
    pc = "annex" =>
        LET top_c == TopCounter(pages_lines, heights, 1, <<>>)
            bot_c == BottomCounter(pages_lines, heights, 1, <<>>)
        IN  /\ \A t \in DOMAIN top_c :
                   /\ top_c[t] = Cardinality(TopZonePages(t))
                   /\ top_c[t] <= Len(pages_lines)
            /\ \A t \in DOMAIN bot_c :
                   /\ bot_c[t] = Cardinality(BottomZonePages(t))
                   /\ bot_c[t] <= Len(pages_lines)

\* a text is twice in the top zone and twice in the bottom zone of one page,
\* and in these zones of no other page: its counts are 1
C19_Witness ==
    /\ pc = "annex"
    /\ Len(pages_lines) >= 3
    /\ \E t \in AllTexts : \E p \in DOMAIN pages_lines :
           /\ TopOccurrences(t, p) >= 2
           /\ BottomOccurrences(t, p) >= 2
           /\ TopZonePages(t) = {p}
           /\ BottomZonePages(t) = {p}
           /\ TopCounter(pages_lines, heights, 1, <<>>)[t] = 1
           /\ BottomCounter(pages_lines, heights, 1, <<>>)[t] = 1

----------------------------------------------------------------------------
(* Properties of the pages without height *)

\* C20: a page whose height is not above 0 takes no part in the
\* classification by zones: once detect_headers_footers has run, none of its
\* lines is a top or bottom candidate and the page is no annex candidate, and
\* when the page is filtered a line of it is dropped by the rule of the
\* banned content only.
C20_FlatPageOutsideZones ==
    detect_calls > 0 =>
        \A p \in DOMAIN pages_lines :
            heights[p] <= 0 =>
                /\ TopCandidates(pages_lines[p], heights[p]) = {}
                /\ BottomCandidates(pages_lines[p], heights[p]) = {}
                /\ ~IsAnnexCandidatePage(pages_lines[p], heights[p])
                /\ p \in DOMAIN decisions =>
                       \A k \in DOMAIN pages_lines[p] :
                           decisions[p][k] => should_remove_global(pages_lines[p][k].line)

----------------------------------------------------------------------------
(* Properties of the detection over the whole document *)

\* the number of the first m pages that have the text t in their top zone, t
\* being no page number; in their bottom zone
TopPagesAmong(t, m) ==
    Cardinality({p \in 1..m : \E k \in DOMAIN pages_lines[p] :
        /\ pages_lines[p][k].line = t
        /\ InTopZone(pages_lines[p][k].y0, heights[p])
        /\ ~is_page_number(t)})

BottomPagesAmong(t, m) ==
    Cardinality({p \in 1..m : \E k \in DOMAIN pages_lines[p] :
        /\ pages_lines[p][k].line = t
        /\ InBottomZone(pages_lines[p][k].y0, heights[p])})

\* the headers and the footers that the first m pages alone would give
HeadersAmong(m) ==
    {t \in AllTexts : TopPagesAmong(t, m) > 0
                      /\ TopPagesAmong(t, m) * 100 >= REPEAT_THRESHOLD * m}

FootersAmong(m) ==
    {t \in AllTexts : BottomPagesAmong(t, m) > 0
                      /\ BottomPagesAmong(t, m) * 100 >= REPEAT_THRESHOLD * m}

\* line k of page p is dropped by the rules when the headers are H and the
\* footers are F
DropsWith(p, k, H, F) ==
    LET l == pages_lines[p][k]
        h == heights[p]
    IN  \/ should_remove_global(l.line)
        \/ l.line \in H /\ InTopZone(l.y0, h)
        \/ l.line \in F /\ InBottomZone(l.y0, h)
        \/ is_page_number(l.line) /\ (InTopZone(l.y0, h) \/ InBottomZone(l.y0, h))

\* C21: once the headers and footers are detected, and whether the document
\* is truncated at an annex or not, they are the texts counted over all the
\* pages of the document against the number of all its pages: the pages from
\* the annex on, the pages without lines and the lines with banned content
\* count; every line of a filtered page is decided with these sets.
C21_DetectedOverWholeDocument ==
    pc \in {"filter", "join", "done"} =>
        LET H == HeadersAmong(Len(doc))
            F == FootersAmong(Len(doc))
        IN  /\ Len(pages_lines) = Len(doc)
            /\ top_rep = H
            /\ bot_rep = F
            /\ \A p \in DOMAIN decisions : \A k \in DOMAIN pages_lines[p] :
                   decisions[p][k] = DropsWith(p, k, H, F)

\* the document was truncated at an annex and has a page without lines; a
\* text with banned content is a header; the retained pages alone would give
\* other headers, and a line at the top of a retained page was dropped as a
\* header that the retained pages alone would have kept
C21_Witness ==
    /\ pc = "join"
    /\ annex_start.some
    /\ annex_start.v >= 1
    /\ Len(decisions) = annex_start.v
    /\ \E p \in DOMAIN pages_lines : pages_lines[p] = <<>>
    /\ \E t \in top_rep : IsBoilerplate(t)
    /\ HeadersAmong(annex_start.v) # top_rep
    /\ \E p \in DOMAIN decisions : \E k \in DOMAIN pages_lines[p] :
           /\ decisions[p][k]
           /\ ~DropsWith(p, k, HeadersAmong(annex_start.v), FootersAmong(annex_start.v))

----------------------------------------------------------------------------
(* Properties of the text returned *)

\* the pieces of s between the occurrences of the character c
RECURSIVE SplitOn(_, _)
SplitOn(s, c) ==
    LET at == {k \in 1..Len(s) : s[k] = c}
    IN  IF at = {} THEN << s >>
        ELSE << SubSeq(s, 1, SetMin(at) - 1) >>
             \o SplitOn(SubSeq(s, SetMin(at) + 1, Len(s)), c)

\* the pages the filter loop retains: those before the annex boundary, all
\* of them without one
RetainedPages ==
    1..(IF annex_start.some /\ annex_start.v < Len(doc) THEN annex_start.v ELSE Len(doc))

\* the retained pages that have a line no rule excludes, in page order
RECURSIVE PagesWithSurvivors(_)
PagesWithSurvivors(m) ==
    IF m = 0 THEN <<>>
    ELSE PagesWithSurvivors(m - 1)
         \o (IF m \in RetainedPages /\ Survivors(m, 1) # <<>> THEN << m >> ELSE <<>>)

\* C22: the call returns None when no retained page has a surviving line;
\* otherwise the text returned, split at its line breaks, has one segment
\* for each retained page with a surviving line, in page order; the segment
\* is the surviving lines of the page joined with one space and is not
\* empty, so that no two line breaks follow each other and none starts or
\* ends the text.
C22_OneSegmentPerSurvivingPage ==
    pc = "done" =>
        LET pages == PagesWithSurvivors(Len(doc))
        IN  IF pages = <<>> THEN result = None
            ELSE /\ result.some
                 /\ LET segments == SplitOn(result.v, "\n")
                    IN  /\ Len(segments) = Len(pages)
                        /\ \A j \in DOMAIN segments :
                               /\ segments[j] # <<>>
                               /\ segments[j] = Join(Survivors(pages[j], 1), <<" ">>)
                        /\ Cardinality({k \in DOMAIN result.v : result.v[k] = "\n"})
                               = Len(pages) - 1

\* the text returned has two segments, from two pages with surviving lines;
\* between them a retained page has lines of which none survives, and the
\* document has a page without lines
C22_Witness ==
    /\ pc = "done"
    /\ result.some
    /\ Len(SplitOn(result.v, "\n")) = 2
    /\ \E p \in RetainedPages : \E q \in RetainedPages : \E r \in RetainedPages :
           /\ p < q /\ q < r
           /\ Survivors(p, 1) # <<>>
           /\ pages_lines[q] # <<>> /\ Survivors(q, 1) = <<>>
           /\ Len(Survivors(r, 1)) >= 2

----------------------------------------------------------------------------
(* Properties of the rule of the protocol codes *)

\* the whole line is an optional asterisk, "cd" in any letter case, a number
\* of digits among counts, and an optional asterisk
IsProtocolCodeOf(line, counts) ==
    LET a == DropOptional(line, "*")
    IN  /\ Len(a) >= 2
        /\ a[1] \in {"c", "C"}
        /\ a[2] \in {"d", "D"}
        /\ LET b == DropFirst(a, 2)
               c == DropWhile(b, Digits)
           IN  /\ (Len(b) - Len(c)) \in counts
               /\ c \in {<<>>, <<"*">>}

\* C23: should_remove_global flags every line that is a protocol code, "cd"
\* in any letter case with six or more digits, an asterisk or none before
\* and an asterisk or none after; a line of that shape with fewer than six
\* digits is not matched by the rule of the protocol codes and is not
\* flagged.
C23_ProtocolCodeFlagged ==
    cl_pc = "done" =>
        /\ IsProtocolCodeOf(cl_line, 6..Len(cl_line)) => cl_remove
        /\ IsProtocolCodeOf(cl_line, 0..5) =>
               ~HasProtocolCode(casefold(cl_line)) /\ ~cl_remove

\* a code in capitals between two asterisks was flagged
C23_Witness ==
    /\ cl_pc = "done"
    /\ cl_remove
    /\ IsProtocolCodeOf(cl_line, 6..Len(cl_line))
    /\ cl_line[1] = "*"
    /\ cl_line[Len(cl_line)] = "*"
    /\ cl_line[2] = "C"

----------------------------------------------------------------------------
(* Properties of the order of the lines *)

\* the non-empty normalized lines of the blocks of a page, block after block
\* and, within a block, line after line
RECURSIVE OrderedLines(_)
OrderedLines(blocks) ==
    IF blocks = <<>> THEN <<>>
    ELSE LET raw == splitlines(Head(blocks).text)
             normalized == [k \in DOMAIN raw |-> normalize_line(raw[k])]
         IN  SelectSeq(normalized, LAMBDA x : x # <<>>) \o OrderedLines(Tail(blocks))

\* line l stands in text right after its first n characters, after a space
\* when n is not 0
LineStandsAt(text, l, n) ==
    LET from == IF n = 0 THEN 0 ELSE n + 1
    IN  /\ from + Len(l) <= Len(text)
        /\ n > 0 => text[n + 1] = " "
        /\ SubSeq(text, from + 1, from + Len(l)) = l

\* the lengths of the prefixes of text that are lines taken in order from
\* lines, each at most once, and joined with one space, when K holds these
\* lengths for the lines that came before
RECURSIVE JoinedPrefixes(_, _, _)
JoinedPrefixes(text, lines, K) ==
    IF lines = <<>> THEN K
    ELSE LET l == Head(lines)
             taken == {(IF n = 0 THEN 0 ELSE n + 1) + Len(l) :
                          n \in {m \in K : LineStandsAt(text, l, m)}}
         IN  JoinedPrefixes(text, Tail(lines), K \cup taken)

IsJoinOfSubsequence(text, lines) ==
    text # <<>> /\ Len(text) \in JoinedPrefixes(text, lines, {0})

\* the segments from the j-th on are made, each from the lines of one page,
\* of pages from the p-th on taken in page order
RECURSIVE SegmentsFromPages(_, _, _)
SegmentsFromPages(segments, j, p) ==
    IF j > Len(segments) THEN TRUE
    ELSE IF p > Len(doc) THEN FALSE
    ELSE \/ /\ IsJoinOfSubsequence(segments[j], OrderedLines(doc[p].blocks))
            /\ SegmentsFromPages(segments, j + 1, p + 1)
         \/ SegmentsFromPages(segments, j, p + 1)

\* C24: the lines extracted from a page are its non-empty normalized lines
\* in block order and, within a block, in line order; each segment of the
\* text returned is made of lines of one page, unaltered, in that order and
\* each taken at most once, and the segments follow the order of their
\* pages.
C24_FilteringOnlyDeletes ==
    /\ \A p \in DOMAIN pages_lines :
           [k \in DOMAIN pages_lines[p] |-> pages_lines[p][k].line]
               = OrderedLines(doc[p].blocks)
    /\ (pc = "done" /\ result.some) =>
           SegmentsFromPages(SplitOn(result.v, "\n"), 1, 1)

\* the text returned has two segments or more; on a page a text was dropped
\* in one place and kept in another, and two lines of one block were kept
C24_Witness ==
    /\ pc = "done"
    /\ result.some
    /\ Len(SplitOn(result.v, "\n")) >= 2
    /\ \E p \in DOMAIN decisions : \E k \in DOMAIN pages_lines[p] :
           \E q \in DOMAIN pages_lines[p] :
               /\ k < q
               /\ pages_lines[p][k].line = pages_lines[p][q].line
               /\ decisions[p][k] /\ ~decisions[p][q]
    /\ \E p \in DOMAIN decisions : \E b \in DOMAIN doc[p].blocks :
           /\ Len(OrderedLines(<< doc[p].blocks[b] >>)) >= 2
           /\ \A k \in DOMAIN pages_lines[p] :
                  pages_lines[p][k].y0 = doc[p].blocks[b].y0 => ~decisions[p][k]

----------------------------------------------------------------------------
(* Properties of the batch run *)

\* the fetch k of the run failed: one of the stages raised
FetchFailed(k) ==
    batch.fetched[k].step = "fetched" /\ batch.fetched[k].f.raises # "nothing"

\* what the field of item k holds after the loop according to the claim:
\* None without URL or after a failure, else the text of the document, None
\* when it has none
ExpectedField(k) ==
    IF batch.fetched[k].step = "no url" \/ FetchFailed(k) THEN None
    ELSE CleanedAlone(batch.fetched[k].f.d)

\* C25: no exception leaves the loop and the loop can always go on until the
\* list is saved; the saved list has the length and the order of the input;
\* what is no dict is saved as it was; every dict is saved with its other
\* fields as they were and with textoInteiroTeorLimpo set, to None when it
\* has no URL, when a stage of the acquisition or the cleaning raised or
\* when the document gives no text, and else to the text, which is not
\* empty.
C25_BatchNeverStops ==
    /\ batch.pc \in {"loop", "done"}
    /\ batch.pc = "loop" => ENABLED NextBatch
    /\ batch.pc = "done" =>
           /\ batch.out.some
           /\ Len(batch.out.v) = Len(batch.input)
           /\ \A k \in DOMAIN batch.input :
                  LET before == batch.input[k]
                      after == batch.out.v[k]
                  IN  IF ~before.dict THEN after = before
                      ELSE /\ after = [before EXCEPT
                                  !.textoInteiroTeorLimpo = Holds(ExpectedField(k))]
                           /\ after.textoInteiroTeorLimpo.v.some =>
                                  after.textoInteiroTeorLimpo.v.v # <<>>

\* the list was saved after a fetch failed for one item, a text was stored
\* for a later item, and an item in between was no dict
C25_Witness ==
    /\ batch.pc = "done"
    /\ \E k \in DOMAIN batch.input : \E m \in DOMAIN batch.input :
           \E n \in DOMAIN batch.input :
               /\ k < m /\ m < n
               /\ FetchFailed(k)
               /\ batch.out.v[k].textoInteiroTeorLimpo = Holds(None)
               /\ ~batch.input[m].dict
               /\ batch.input[n].dict
               /\ batch.out.v[n].textoInteiroTeorLimpo.v.some

----------------------------------------------------------------------------
(* Properties of process_propositions_in_parallel *)

\* the task at index k has ended and the LLM gave for it a summary and at
\* least one entity
IsComplete(k) ==
    /\ pool.tasks[k].state = "done"
    /\ ~pool.tasks[k].answer.raises
    /\ pool.tasks[k].answer.entities > 0

\* the rows owed to the propositions at the indexes 1..m: for each complete
\* one, in the order of the indexes, its summary; its entities
RECURSIVE OwedSummaries(_)
OwedSummaries(m) ==
    IF m = 0 THEN <<>>
    ELSE OwedSummaries(m - 1)
         \o (IF IsComplete(m) THEN << [id |-> pool.ids[m], text |-> m] >> ELSE <<>>)

RECURSIVE OwedEntities(_)
OwedEntities(m) ==
    IF m = 0 THEN <<>>
    ELSE OwedEntities(m - 1)
         \o (IF IsComplete(m)
              THEN [n \in 1..pool.tasks[m].answer.entities |->
                       [id |-> pool.ids[m], text |-> m, entity |-> n]]
              ELSE <<>>)

\* C26: whatever the order in which the tasks end, the rows collected from
\* the first i results are those of the propositions at these indexes whose
\* call gave a summary and at least one entity, each with the id and the
\* text of its proposition, and the ids counted as processed are theirs; a
\* proposition whose call raised or gave no entity has no row in a batch;
\* each batch insert is issued at most once, when every task has ended and
\* every result is collected, with exactly these rows.
C26_ResultsAttributed ==
    /\ pool.all_summaries = OwedSummaries(pool.i)
    /\ pool.all_entities = OwedEntities(pool.i)
    /\ pool.new_processed_ids = {pool.ids[k] : k \in {j \in 1..pool.i : IsComplete(j)}}
    /\ Len(pool.summary_inserts) <= 1
    /\ Len(pool.entity_inserts) <= 1
    /\ (pool.summary_inserts # <<>> \/ pool.entity_inserts # <<>>) =>
           /\ pool.i = Len(pool.ids)
           /\ \A k \in DOMAIN pool.tasks : pool.tasks[k].state = "done"
    /\ \A b \in DOMAIN pool.summary_inserts :
           /\ pool.summary_inserts[b] = OwedSummaries(Len(pool.ids))
           /\ \A r \in DOMAIN pool.summary_inserts[b] :
                  IsComplete(pool.summary_inserts[b][r].text)
    /\ \A b \in DOMAIN pool.entity_inserts :
           /\ pool.entity_inserts[b] = OwedEntities(Len(pool.ids))
           /\ \A r \in DOMAIN pool.entity_inserts[b] :
                  IsComplete(pool.entity_inserts[b][r].text)
    /\ \A row \in pool.proposition_summary \cup pool.proposition_ner :
           IsComplete(row.text) /\ row.id = pool.ids[row.text]

\* three propositions, the second and the third with another id than the
\* first; the task of the second ended first; the call of one raised, one
\* gave a summary without entities and one a summary with entities; each
\* batch insert was issued once and committed
C26_Witness ==
    /\ pool.pc = "done"
    /\ Len(pool.ids) = 3
    /\ pool.ids[1] # pool.ids[3]
    /\ pool.finished[1] = 2
    /\ pool.tasks[1].answer.raises
    /\ ~pool.tasks[2].answer.raises /\ pool.tasks[2].answer.entities = 0
    /\ IsComplete(3)
    /\ Len(pool.summary_inserts) = 1
    /\ Len(pool.entity_inserts) = 1
    /\ pool.new_processed_ids = {pool.ids[3]}
    /\ pool.proposition_ner # {}

====
